---- MODULE Spec2Model ----
(***************************************************************************)
(* Flamslides: the presentation generation and persistence pipeline of    *)
(* the Index page (src/src/pages/Index.tsx), the local-storage record it   *)
(* writes and the presentation viewer (src/src/pages/Present.tsx) that     *)
(* loads it.                                                               *)
(*                                                                         *)
(* Values.  A JavaScript `undefined` is Undef and `null` is Null.  A      *)
(* string is a sequence of tokens.  The tokens of an image description are *)
(* its characters, because the fallback choice sums their char codes.  The *)
(* first token of an image reference is the prefix that startsWith() and   *)
(* the URL parser look at.  "API key" is a token of an error message,      *)
(* because the code searches the message for that substring.               *)
(***************************************************************************)
EXTENDS Integers, Sequences, FiniteSets, TLC

VARIABLES
  slides,              \* Index: useState slides
  currentSlide,        \* Index: useState currentSlide
  formData,            \* Index: useState formData
  isGenerating,        \* Index: useState isGenerating
  currentStep,         \* Index: useState currentStep
  loadingMessage,      \* Index: useState loadingMessage
  presentationId,      \* Index: useState presentationId
  isApiKeyDialogOpen,  \* Index: useState isApiKeyDialogOpen
  pendingImagePrompt,  \* Index: useState pendingImagePrompt
  keyItem,             \* localStorage item 'openai_api_key'
  storage,             \* localStorage items 'presentation_<id>'
  nextId,              \* number of identifiers drawn from Math.random so far
  pc,                  \* position of the handleSubmit run
  presentation,        \* handleSubmit: the validated LLM presentation
  tasks,               \* handleSubmit: the per-slide promises of Promise.all
  run,                 \* observation of the current / last handleSubmit run
  storeCalls,          \* observation of the generatePresentationId calls so far
  viewer,              \* Present page: presentationId, slides, isLoading
  dialogTrigger,       \* observation: what opened the API-key dialog last
  replay,              \* ApiKeyDialog onSuccess: the image call it awaits
  failures,            \* observation: stage and toast of the failed runs so far
  exporter,            \* exportToPowerPoint: position, deck, slides built so far
  shareViewer,         \* PresentationMode of a share token: token, slides, isLoading
  validation,          \* PresentationRequest.safeParse: the request and the verdict
  asyncOps             \* Index page: the import being read, the single-image
                       \* generation and the overlapping run in flight

vars == <<slides, currentSlide, formData, isGenerating, currentStep,
          loadingMessage, presentationId, isApiKeyDialogOpen,
          pendingImagePrompt, keyItem, storage, nextId, pc,
          presentation, tasks, run, storeCalls, viewer, dialogTrigger, replay,
          failures, exporter, shareViewer, validation, asyncOps>>

\* The state outside the Index page's deck generation and the Present page
otherVars == <<exporter, shareViewer, validation, asyncOps>>

(***************************************************************************)
(* Bounds                                                                  *)
(***************************************************************************)
MaxSlides == 2      \* slides in one LLM presentation
MaxIds == 3         \* identifiers drawn from Math.random
MaxDeck == 2        \* slides of a deck handed to the persistence adapter
MaxRuns == 1        \* LLM requests issued by handleSubmit
MaxClock == 2       \* values Date.now() takes when an export is saved
MaxDeckLen == 2     \* slides a deck reaches through addNewSlide and importSlides

(***************************************************************************)
(* JavaScript values.  Every string is a sequence of string tokens, so    *)
(* that all values are comparable; "" is the empty sequence.              *)
(***************************************************************************)
Undef == <<"\\undefined">>
Null == <<"\\null">>

IsString(v) == v \notin {Undef, Null}

\* JavaScript truthiness of a string, null or undefined
Truthy(v) == v \notin {Undef, Null, <<>>}

\* Property read: a key an object does not have reads as undefined
Get(o, k) == IF k \in DOMAIN o THEN o[k] ELSE Undef

DataPrefix == {"data:"}
HttpPrefix == {"http:", "https:"}
UrlSchemes == {"data:", "http:", "https:", "ftp:"}

\* String.prototype.startsWith on an image reference: the first token of a
\* reference is its scheme; 'http' is a prefix of both http: and https:
StartsWith(s, prefix) == Len(s) >= 1 /\ s[1] \in prefix

\* z.string().url(): the URL parser accepts the string
IsUrl(s) == Len(s) >= 2 /\ s[1] \in UrlSchemes

\* String.prototype.includes("API key") on an error message
IncludesApiKey(msg) == \E i \in 1..Len(msg) : msg[i] = "API key"

\* String.prototype.charCodeAt(0) of the one-character tokens of a description
CharCode == [c \in {"a", "b", "c", "d"} |-> CASE c = "a" -> 97 [] c = "b" -> 98
                                              [] c = "c" -> 99 [] c = "d" -> 100]

RECURSIVE SumCodes(_)
\* prompt.split('').reduce((acc, char) => acc + char.charCodeAt(0), 0)
SumCodes(s) == IF s = <<>> THEN 0 ELSE CharCode[Head(s)] + SumCodes(Tail(s))

Abs(n) == IF n < 0 THEN -n ELSE n

(***************************************************************************)
(* Slides                                                                  *)
(***************************************************************************)
SlideKeys == {"title", "body", "notes", "imageUrl", "ai_image_description"}

\* A slide in memory: the five properties, Undef for one that is not set
MkSlide(t, b, n, img, d) ==
  [title |-> t, body |-> b, notes |-> n, imageUrl |-> img, ai_image_description |-> d]

fallbackImages ==
  << <<"https:", "photo-1516383740770">>, <<"https:", "photo-1488590528505">>,
     <<"https:", "photo-1552664730">>, <<"https:", "photo-1618005182384">>,
     <<"https:", "photo-1557804506">> >>

sampleSlides ==
  << MkSlide(<<"Welcome">>, <<"w">>, Undef, fallbackImages[1], <<"a", "b">>),
     MkSlide(<<"Content">>, <<"c">>, Undef, fallbackImages[2], <<"b", "c">>),
     MkSlide(<<"Custom">>, <<"u">>, Undef, fallbackImages[3], <<"c", "d">>),
     MkSlide(<<"Themes">>, <<"t">>, Undef, fallbackImages[4], <<"d", "a">>),
     MkSlide(<<"Present">>, <<"p">>, Undef, fallbackImages[5], <<"a", "c">>) >>

\* sampleSlides[index % sampleSlides.length].imageUrl, index counted from 0
NoSampleImage(index) == Null

SampleImage(index) == sampleSlides[(index % Len(sampleSlides)) + 1].imageUrl

\* with { ...slide, imageUrl }
WithImage(slide, img) == [slide EXCEPT !.imageUrl = img]

(***************************************************************************)
(* Schema layer (src/src/types/slide.ts).  An object parsed from JSON is a *)
(* function from the keys it has to their values.                          *)
(***************************************************************************)
\* z.string().min(1)
NonEmptyString(v) == IsString(v) /\ Len(v) >= 1

\* Mutant of SlideContentOk: any imageUrl passes
SlideContentOkAnyImage(o) ==
  /\ NonEmptyString(Get(o, "title"))
  /\ NonEmptyString(Get(o, "body"))
  /\ Get(o, "notes") # Null
  /\ Get(o, "ai_image_description") # Null

\* SlideContent.safeParse(o).success
SlideContentOk(o) ==
  /\ NonEmptyString(Get(o, "title"))
  /\ NonEmptyString(Get(o, "body"))
  /\ Get(o, "notes") # Null
  /\ Get(o, "imageUrl") \in {Undef, Null} \/ IsUrl(Get(o, "imageUrl"))
  /\ Get(o, "ai_image_description") # Null

\* The slide SlideContent.parse returns: the known keys of the object
SlideContentParse(o) ==
  MkSlide(Get(o, "title"), Get(o, "body"), Get(o, "notes"), Get(o, "imageUrl"),
          Get(o, "ai_image_description"))

\* PresentationSchema.safeParse(o).success; the optional theme is not modelled
PresentationSchemaOk(o) ==
  /\ NonEmptyString(Get(o, "title"))
  /\ "slides" \in DOMAIN o
  /\ Len(o.slides) >= 1
  /\ \A i \in 1..Len(o.slides) : SlideContentOk(o.slides[i])

\* PresentationSchema.parse(o) of an object that passes
PresentationSchemaParse(o) ==
  [slides |-> [i \in 1..Len(o.slides) |-> SlideContentParse(o.slides[i])],
   title |-> o.title]

Styles == {"professional", "casual", "academic"}

\* The style property of a request that has none
StyleAbsent == "(absent)"

\* A JavaScript number, as the fraction num/den; NaN has den = 0
Num(n, d) == [num |-> n, den |-> d]
NaN == Num(0, 0)

\* z.number().min(lo).max(hi): a number that is not NaN, within the limits
ZodNumberMinMax(x, lo, hi) ==
  /\ x.den > 0
  /\ x.num >= lo * x.den
  /\ x.num <= hi * x.den

\* PresentationRequest.safeParse(r).success for a request whose numbers are
\* any JavaScript numbers and whose style may be absent (it has a default)
PresentationRequestAccepts(r) ==
  /\ NonEmptyString(r.topic)
  /\ NonEmptyString(r.description)
  /\ ZodNumberMinMax(r.numberOfSlides, 1, 10)
  /\ ZodNumberMinMax(r.duration, 1, 30)
  /\ r.style = StyleAbsent \/ r.style \in Styles

\* Mutant of PresentationRequestOk: the texts of the request are not looked at
RequestNumbersOk(f) ==
  /\ f.numberOfSlides >= 1 /\ f.numberOfSlides <= 10
  /\ f.duration >= 1 /\ f.duration <= 30

\* PresentationRequest.safeParse(formData).success
PresentationRequestOk(f) ==
  PresentationRequestAccepts([f EXCEPT !.numberOfSlides = Num(@, 1),
                                       !.duration = Num(@, 1)])

(***************************************************************************)
(* Credential store (src/unnamed/part_002)                                 *)
(***************************************************************************)
\* btoa / atob, on the keys the model uses
encryptKey(text) == <<"btoa">> \o text
decryptKey(item) == IF Len(item) >= 1 /\ item[1] = "btoa" THEN Tail(item) ELSE <<>>

\* getApiKey(): null when the item is absent or decodes to the empty string
getApiKey(item) ==
  IF ~Truthy(item) THEN Null
  ELSE IF NonEmptyString(decryptKey(item)) THEN decryptKey(item) ELSE Null

(***************************************************************************)
(* Image client: generateImage (src/src/pages/Index.tsx)                   *)
(***************************************************************************)
\* What the image endpoint can answer: fetch rejects, or a response with a
\* status, a body that is JSON or not, and in the body an error message or
\* base64 image data.
HttpResponse(status, jsonOk, message, b64) ==
  [status |-> status, jsonOk |-> jsonOk, message |-> message,
   b64 |-> b64, kind |-> "response"]

FetchRejected ==
  [status |-> 0, jsonOk |-> FALSE, message |-> Undef, b64 |-> Undef, kind |-> "reject"]

\* No fetch was made, or it has not answered yet
NoResponse ==
  [status |-> 0, jsonOk |-> FALSE, message |-> Undef, b64 |-> Undef, kind |-> "none"]

ImageResponses ==
  { FetchRejected,
    HttpResponse(200, TRUE, Undef, <<"iVBOR">>),
    HttpResponse(200, TRUE, Undef, Undef),
    HttpResponse(401, TRUE, <<"Incorrect ", "API key", " provided">>, Undef),
    HttpResponse(401, FALSE, Undef, Undef),
    HttpResponse(403, TRUE, <<"This ", "API key", " has no access to images">>, Undef),
    HttpResponse(500, TRUE, <<"The server had an error">>, Undef) }

\* response.ok
ResponseOk(resp) == resp.status >= 200 /\ resp.status <= 299

MsgNoKey == <<"Please enter your OpenAI ", "API key", " to generate images">>
MsgInvalidKey == <<"Invalid ", "API key", ". Please enter a valid OpenAI ", "API key", ".">>
MsgFailed == <<"Failed to generate image">>
MsgNoData == <<"No image data in DALL-E response">>
MsgFetch == <<"Failed to fetch">>
MsgSyntax == <<"Unexpected token in JSON">>

Returned(v) == [threw |-> FALSE, value |-> v, removeKey |-> FALSE, askKey |-> FALSE]
Thrown(msg, removeKey, askKey) ==
  [threw |-> TRUE, value |-> msg, removeKey |-> removeKey, askKey |-> askKey]

\* The try block of generateImage: what it returns or throws, and whether it
\* removed the stored key and asked for a new one (pending prompt + dialog)
generateImageTry(prompt, apiKey, resp) ==
  IF ~Truthy(apiKey) THEN Thrown(MsgNoKey, FALSE, TRUE)
  ELSE IF resp.kind # "response" THEN Thrown(MsgFetch, FALSE, FALSE)
  ELSE IF ~ResponseOk(resp) THEN
         \* line 470: the error body is parsed before the status is looked at
         IF ~resp.jsonOk THEN Thrown(MsgSyntax, FALSE, FALSE)
         ELSE IF resp.status = 401 THEN Thrown(MsgInvalidKey, TRUE, TRUE)
         ELSE Thrown(IF Truthy(resp.message) THEN resp.message ELSE MsgFailed,
                     FALSE, FALSE)
  ELSE IF ~resp.jsonOk THEN Thrown(MsgSyntax, FALSE, FALSE)
  ELSE IF ~Truthy(resp.b64) THEN Thrown(MsgNoData, FALSE, FALSE)
  ELSE Returned(<<"data:", "image/png;base64,">> \o resp.b64)

\* The fallback of the catch block: the pool entry the prompt's char codes pick
FallbackFor(prompt) == fallbackImages[(Abs(SumCodes(prompt)) % Len(fallbackImages)) + 1]

\* generateImage(prompt): the try block followed by the catch block
generateImage(prompt, apiKey, resp) ==
  LET r == generateImageTry(prompt, apiKey, resp) IN
    IF r.threw /\ ~IncludesApiKey(r.value)
    THEN [r EXCEPT !.threw = FALSE, !.value = FallbackFor(prompt)]
    ELSE r

(***************************************************************************)
(* What the LLM endpoint can answer                                        *)
(***************************************************************************)
RawTitle == <<"T">>
RawBody == <<"B">>

\* Slide objects the model can send that SlideContent accepts ...
ValidRawSlides ==
  { [title |-> RawTitle, body |-> RawBody, ai_image_description |-> <<"a">>],
    [title |-> RawTitle, body |-> RawBody, notes |-> <<"n">>,
     imageUrl |-> <<"http:", "//img/1.png">>],
    [title |-> RawTitle, body |-> RawBody, imageUrl |-> <<"ftp:", "//img/2.png">>,
     ai_image_description |-> <<"b">>],
    [title |-> RawTitle, body |-> RawBody, imageUrl |-> Null,
     ai_image_description |-> <<>>] }

\* ... and that it rejects: empty title, no body, imageUrl that is no URL
InvalidRawSlides ==
  { [title |-> <<>>, body |-> RawBody],
    [title |-> RawTitle],
    [title |-> RawTitle, body |-> RawBody, imageUrl |-> <<>>] }

RECURSIVE SeqsUpTo(_, _)
\* the sequences over S of length at most n
SeqsUpTo(S, n) ==
  IF n = 0 THEN {<<>>}
  ELSE LET shorter == SeqsUpTo(S, n - 1) IN
         shorter \cup {Append(q, x) : q \in {r \in shorter : Len(r) = n - 1}, x \in S}

RawPresentations ==
  {[slides |-> q, title |-> RawTitle] : q \in SeqsUpTo(ValidRawSlides, MaxSlides)}
  \cup {[slides |-> <<x>>, title |-> RawTitle] : x \in InvalidRawSlides}
  \cup {[slides |-> <<x, y>>, title |-> RawTitle] :
          x \in ValidRawSlides, y \in InvalidRawSlides}
  \cup {[slides |-> <<x>>, title |-> <<>>] : x \in ValidRawSlides}
  \cup {[slides |-> <<x>>] : x \in ValidRawSlides}
  \cup {[title |-> RawTitle]}

\* A text and JSON.parse of it: a text is JSON for some value, or it is not JSON
JsonText(v) == [value |-> v, json |-> TRUE]
NotJson == [value |-> <<>>, json |-> FALSE]

\* openai.chat.completions.create: rejects, or resolves with a message
\* content that is absent or a text
Completions ==
  { [kind |-> "reject", content |-> NotJson], [kind |-> "nocontent", content |-> NotJson],
    [kind |-> "content", content |-> NotJson] }
  \cup {[kind |-> "content", content |-> JsonText(o)] : o \in RawPresentations}

(***************************************************************************)
(* Index page: form and deck generation (src/src/pages/Index.tsx)          *)
(***************************************************************************)
NoPresentation == [slides |-> <<>>, title |-> <<>>]
NoTasks == [apiKey |-> Null, slots |-> <<>>, settled |-> <<>>]
NoRun == [outcome |-> "none", failure |-> "none", toast |-> "none",
          setSlides |-> 0, llmCalls |-> 0]

initialFormData ==
  [topic |-> <<>>, description |-> <<>>, numberOfSlides |-> 3, duration |-> 5,
   style |-> "professional"]

\* parseInt(value) of the texts a number input can hold; -1 stands for NaN
ParseInt(value) ==
  CASE value = <<"0">> -> 0 [] value = <<"3">> -> 3 [] value = <<"5">> -> 5
    [] value = <<"11">> -> 11 [] value = <<"31">> -> 31 [] OTHER -> -1

InputValues(name) ==
  CASE name = "topic" -> {<<>>, <<"Mars">>}
    [] name = "description" -> {<<>>, <<"intro">>}
    [] name = "style" -> {"professional"}
    [] name = "numberOfSlides" -> {<<"0">>, <<"3">>, <<"11">>, <<"x">>}
    [] OTHER -> {<<"0">>, <<"5">>, <<"31">>, <<"x">>}

\* handleInputChange: the new form data after a change event on field `name`
InputChanged(prev, name, value) ==
  IF name \in {"numberOfSlides", "duration"} THEN
    LET numValue == ParseInt(value) IN
      IF numValue # -1 THEN
        IF name = "numberOfSlides" /\ (numValue < 1 \/ numValue > 10) THEN prev
        ELSE IF name = "duration" /\ (numValue < 1 \/ numValue > 30) THEN prev
        ELSE [prev EXCEPT ![name] = numValue]
      ELSE prev
  ELSE [prev EXCEPT ![name] = value]

handleInputChange(name, value) ==
  /\ formData' = InputChanged(formData, name, value)
  /\ UNCHANGED <<slides, currentSlide, isGenerating, currentStep, loadingMessage,
                 presentationId, isApiKeyDialogOpen, pendingImagePrompt, keyItem,
                 storage, nextId, pc, presentation, tasks, run, storeCalls,
                 viewer, dialogTrigger, replay, failures, otherVars>>

\* Mutant of ProcessSlide: a slide without a description gets the sample
\* image of its position whether or not it has an image
ProcessSlideSampleFirst(slide, index, gi) ==
  IF Truthy(slide.ai_image_description) THEN
    IF gi.threw THEN WithImage(slide, SampleImage(index))
    ELSE WithImage(slide, gi.value)
  ELSE WithImage(slide, SampleImage(index))

\* The body of the map callback of handleSubmit for one slide, given what
\* generateImage did (read only when the slide has a description)
ProcessSlide(slide, index, gi) ==
  IF Truthy(slide.ai_image_description) THEN
    IF gi.threw THEN WithImage(slide, SampleImage(index))
    ELSE WithImage(slide, gi.value)
  ELSE WithImage(slide, IF Truthy(slide.imageUrl) THEN slide.imageUrl
                        ELSE SampleImage(index))

\* Mutant of PromiseAll: the results in the order in which the promises settled
PromiseAllInSettledOrder(slots, settled) ==
  [k \in 1..Len(settled) |-> slots[settled[k]].slide]

\* The value Promise.all resolves with: one result per promise, in the
\* order of the promises, whatever the order in which they settled
PromiseAll(slots, settled) == [i \in 1..Len(slots) |-> slots[i].slide]

\* Mutant of AllSettled: the join resolves with the first promise
FirstSettled(slots) == \E i \in 1..Len(slots) : slots[i].state = "settled"

\* Promise.all has resolved: every promise has
AllSettled(slots) == \A i \in 1..Len(slots) : slots[i].state = "settled"

\* The elements of a set of slide positions, in increasing order
Ascending(S) ==
  [k \in 1..Cardinality(S) |-> CHOOSE i \in S : Cardinality({j \in S : j < i}) = k - 1]

\* The last element of a non-empty set of slide positions
Last(S) == CHOOSE i \in S : \A j \in S : j <= i

\* Positions whose generateImage call threw before its fetch: no stored key
NoKeyThrows(pres, apiKey) ==
  {i \in 1..Len(pres.slides) :
     Truthy(pres.slides[i].ai_image_description) /\ ~Truthy(apiKey)}

\* The promises right after presentation.slides.map(...) has run: a slide
\* with a description and a stored key waits for its fetch, every other one
\* is settled already
LaunchTasks(pres, apiKey) ==
  [apiKey |-> apiKey,
   slots |-> [i \in 1..Len(pres.slides) |->
        LET slide == pres.slides[i] IN
          IF Truthy(slide.ai_image_description) /\ Truthy(apiKey)
          THEN [slide |-> slide, resp |-> NoResponse, threw |-> FALSE,
                state |-> "pending"]
          ELSE LET gi == generateImage(slide.ai_image_description, apiKey, NoResponse)
               IN [slide |-> ProcessSlide(slide, i - 1, gi), resp |-> NoResponse,
                   threw |-> Truthy(slide.ai_image_description) /\ gi.threw,
                   state |-> "settled"]],
   settled |-> Ascending({i \in 1..Len(pres.slides) :
                            ~(Truthy(pres.slides[i].ai_image_description)
                              /\ Truthy(apiKey))})]

\* The toast of the catch block of handleSubmit: a ZodError, or anything else
CatchToast(isZodError) == IF isZodError THEN "Invalid Input" ELSE "Error"

\* Mutant of RunEnds: a response that does not parse is asked for again
RunEndsRetrying(step, outcome, failure, toast) ==
  /\ currentStep' = IF failure = "parse" THEN 2 ELSE step
  /\ isGenerating' = (failure = "parse")
  /\ loadingMessage' = <<>>
  /\ pc' = IF failure = "parse" THEN "llm" ELSE "idle"
  /\ run' = IF failure = "parse"
            THEN [run EXCEPT !.llmCalls = IF @ <= MaxRuns THEN @ + 1 ELSE @]
            ELSE [run EXCEPT !.outcome = outcome, !.failure = failure, !.toast = toast]
  /\ failures' = failures \cup {[toast |-> toast, stage |-> failure]}

\* `finally` of handleSubmit together with the end of the try or catch block
RunEnds(step, outcome, failure, toast) ==
  /\ currentStep' = step
  /\ isGenerating' = FALSE
  /\ loadingMessage' = <<>>
  /\ pc' = "idle"
  /\ run' = [run EXCEPT !.outcome = outcome, !.failure = failure, !.toast = toast]
  /\ failures' = failures \cup {[toast |-> toast, stage |-> failure]}

\* Lines 263-273: the assembled deck replaces the slides state
Publish(processedSlides) ==
  /\ slides' = processedSlides
  /\ currentStep' = 3
  /\ isGenerating' = FALSE
  /\ loadingMessage' = <<>>
  /\ pc' = "idle"
  /\ run' = [run EXCEPT !.outcome = "published", !.toast = "Slides Generated",
                        !.setSlides = @ + 1]
  /\ UNCHANGED failures

\* handleSubmit from the validation of the request (line 162) to its first
\* await: the request is rejected, or the LLM request is issued
StartRun ==
  IF ~PresentationRequestOk(formData) THEN
    /\ currentStep' = 1
    /\ isGenerating' = FALSE
    /\ loadingMessage' = <<>>
    /\ pc' = "idle"
    /\ run' = [outcome |-> "failed", failure |-> "request",
               toast |-> CatchToast(TRUE), setSlides |-> 0, llmCalls |-> run.llmCalls]
    /\ failures' = failures \cup {[toast |-> CatchToast(TRUE), stage |-> "request"]}
    /\ UNCHANGED <<presentation, tasks>>
  ELSE
    /\ run.llmCalls < MaxRuns
    /\ isGenerating' = TRUE
    /\ currentStep' = 2
    /\ loadingMessage' = <<"Creating engaging presentation content with ChatGPT...">>
    /\ pc' = "llm"
    /\ run' = [outcome |-> "running", failure |-> "none", toast |-> "none",
               setSlides |-> 0, llmCalls |-> run.llmCalls + 1]
    /\ presentation' = NoPresentation
    /\ tasks' = NoTasks
    /\ UNCHANGED failures

\* handleSubmit up to its first await: form submit (the button is disabled
\* while isGenerating, and the form is behind the API-key dialog, which is
\* modal, while that is open)
handleSubmit ==
  /\ pc = "idle"
  /\ ~isGenerating
  /\ ~isApiKeyDialogOpen
  /\ IF ~Truthy(getApiKey(keyItem)) THEN
       /\ isApiKeyDialogOpen' = TRUE
       /\ dialogTrigger' = "handleSubmit"
       /\ UNCHANGED <<isGenerating, currentStep, loadingMessage, pc, run,
                      presentation, tasks, failures>>
     ELSE
       /\ StartRun
       /\ UNCHANGED <<isApiKeyDialogOpen, dialogTrigger>>
  /\ UNCHANGED <<slides, currentSlide, formData, presentationId, pendingImagePrompt,
                 keyItem, storage, nextId, storeCalls, viewer, replay, otherVars>>

\* State changes generateImage makes besides its result: the 401 branch
\* removes the stored key; it and the missing-key branch record the prompt
\* and open the API-key dialog
GenerateImageEffects(gi, prompt) ==
  /\ keyItem' = IF gi.removeKey THEN Null ELSE keyItem
  /\ pendingImagePrompt' = IF gi.askKey THEN prompt ELSE pendingImagePrompt
  /\ isApiKeyDialogOpen' = IF gi.askKey THEN TRUE ELSE isApiKeyDialogOpen
  /\ dialogTrigger' = IF gi.askKey THEN "generateImage" ELSE dialogTrigger

\* handleSubmit from the resolution of the LLM call (line 222) to the next
\* await: the catch block, or the launch of the per-slide image promises,
\* and the rest of the handler when none of them has to wait
LLMResponse(c) ==
  /\ pc = "llm"
  /\ IF c.kind = "reject" THEN
       /\ RunEnds(1, "failed", "llm", CatchToast(FALSE))
       /\ UNCHANGED <<slides, presentation, tasks, pendingImagePrompt, isApiKeyDialogOpen,
                      dialogTrigger>>
     ELSE IF c.kind = "nocontent" THEN
       /\ RunEnds(1, "failed", "nocontent", CatchToast(FALSE))
       /\ UNCHANGED <<slides, presentation, tasks, pendingImagePrompt, isApiKeyDialogOpen,
                      dialogTrigger>>
     ELSE IF ~c.content.json THEN
       /\ RunEnds(1, "failed", "parse", CatchToast(FALSE))
       /\ UNCHANGED <<slides, presentation, tasks, pendingImagePrompt, isApiKeyDialogOpen,
                      dialogTrigger>>
     ELSE IF ~PresentationSchemaOk(c.content.value) THEN
       /\ RunEnds(1, "failed", "schema", CatchToast(TRUE))
       /\ UNCHANGED <<slides, presentation, tasks, pendingImagePrompt, isApiKeyDialogOpen,
                      dialogTrigger>>
     ELSE
       LET pres == PresentationSchemaParse(c.content.value)
           apiKey == getApiKey(keyItem)
           launched == LaunchTasks(pres, apiKey)
           noKey == NoKeyThrows(pres, apiKey)
       IN
         /\ presentation' = pres
         /\ tasks' = launched
         /\ IF noKey # {} THEN
              /\ pendingImagePrompt' = pres.slides[Last(noKey)].ai_image_description
              /\ isApiKeyDialogOpen' = TRUE
              /\ dialogTrigger' = "generateImage"
            ELSE UNCHANGED <<pendingImagePrompt, isApiKeyDialogOpen, dialogTrigger>>
         /\ IF AllSettled(launched.slots) THEN
              Publish(PromiseAll(launched.slots, launched.settled))
            ELSE
              /\ pc' = "images"
              /\ loadingMessage' =
                   <<"Generating image for slide ",
                     ToString(Last({i \in 1..Len(pres.slides) :
                                      Truthy(pres.slides[i].ai_image_description)}))>>
              /\ UNCHANGED <<slides, currentStep, isGenerating, run, failures>>
  /\ UNCHANGED <<currentSlide, formData, presentationId, keyItem, storage, nextId,
                 storeCalls, viewer, replay, otherVars>>

\* One per-slide promise of handleSubmit from the resolution of its fetch to
\* its settlement, and the rest of handleSubmit when it was the last one
ImageResponse(i, resp) ==
  /\ pc = "images"
  /\ i \in 1..Len(tasks.slots)
  /\ tasks.slots[i].state = "pending"
  /\ LET slide == tasks.slots[i].slide
         gi == generateImage(slide.ai_image_description, tasks.apiKey, resp)
         slots == [tasks.slots EXCEPT ![i] =
                     [slide |-> ProcessSlide(slide, i - 1, gi), resp |-> resp,
                      threw |-> gi.threw, state |-> "settled"]]
         settled == Append(tasks.settled, i)
     IN
       /\ GenerateImageEffects(gi, slide.ai_image_description)
       /\ tasks' = [tasks EXCEPT !.slots = slots, !.settled = settled]
       /\ IF AllSettled(slots) THEN Publish(PromiseAll(slots, settled))
          ELSE UNCHANGED <<slides, currentStep, isGenerating, loadingMessage, pc, run,
                           failures>>
  /\ UNCHANGED <<currentSlide, formData, presentationId, storage, nextId,
                 presentation, storeCalls, viewer, replay, otherVars>>

\* handleSlideUpdate(index, updatedSlide), called by the slide editor
EditedSlides ==
  { MkSlide(<<"Edited">>, <<"e">>, <<>>, <<"data:", "image/png;base64,", "AAAA">>, <<>>) }

handleSlideUpdate(index, updatedSlide) ==
  /\ index \in 0..(Len(slides) - 1)
  /\ slides' = [slides EXCEPT ![index + 1] = updatedSlide]
  /\ UNCHANGED <<currentSlide, formData, isGenerating, currentStep, loadingMessage,
                 presentationId, isApiKeyDialogOpen, pendingImagePrompt, keyItem,
                 storage, nextId, pc, presentation, tasks, run, storeCalls,
                 viewer, dialogTrigger, replay, failures, otherVars>>

\* The Key button of the title area: setIsApiKeyDialogOpen(true)
openApiKeyDialog ==
  /\ ~isApiKeyDialogOpen
  /\ isApiKeyDialogOpen' = TRUE
  /\ dialogTrigger' = "button"
  /\ UNCHANGED <<slides, currentSlide, formData, isGenerating, currentStep,
                 loadingMessage, presentationId, pendingImagePrompt, keyItem, storage,
                 nextId, pc, presentation, tasks, run, storeCalls,
                 viewer, replay, failures, otherVars>>

\* The Cancel button of the API-key dialog: onOpenChange(false)
cancelApiKeyDialog ==
  /\ isApiKeyDialogOpen
  /\ isApiKeyDialogOpen' = FALSE
  /\ UNCHANGED <<slides, currentSlide, formData, isGenerating, currentStep,
                 loadingMessage, presentationId, pendingImagePrompt, keyItem, storage,
                 nextId, pc, presentation, tasks, run, storeCalls,
                 viewer, dialogTrigger, replay, failures, otherVars>>

\* ApiKeyDialog.handleRemoveKey (src/src/components/LoadingDialog.tsx)
handleRemoveKey ==
  /\ isApiKeyDialogOpen
  /\ Truthy(getApiKey(keyItem))
  /\ keyItem' = Null
  /\ isApiKeyDialogOpen' = FALSE
  /\ UNCHANGED <<slides, currentSlide, formData, isGenerating, currentStep,
                 loadingMessage, presentationId, pendingImagePrompt, storage, nextId,
                 pc, presentation, tasks, run, storeCalls,
                 viewer, dialogTrigger, replay, failures, otherVars>>

(***************************************************************************)
(* Persistence adapter: generatePresentationId (src/src/pages/Index.tsx)   *)
(***************************************************************************)
\* JSON.stringify of an object: a property whose value is undefined is left out
Stringify(o) == [k \in {x \in DOMAIN o : o[x] # Undef} |-> o[k]]

\* presentationData: every slide mapped to its five properties
FullRecord(deck) ==
  [slides |-> [i \in 1..Len(deck) |->
                 Stringify([title |-> deck[i].title,
                            body |-> deck[i].body,
                            notes |-> deck[i].notes,
                            imageUrl |-> deck[i].imageUrl,
                            ai_image_description |-> deck[i].ai_image_description])],
   timestamp |-> <<"Date.now()">>]

\* Mutant of MinimalImage: the retry writes the images it was given
KeepImage(imageUrl) == imageUrl

\* minimalData: URLs are kept, embedded image data becomes null
MinimalImage(imageUrl) ==
  IF imageUrl \notin {Undef, Null} /\ StartsWith(imageUrl, DataPrefix) THEN Null
  ELSE imageUrl

MinimalRecord(deck) ==
  [slides |-> [i \in 1..Len(deck) |->
                 Stringify([title |-> deck[i].title,
                            body |-> deck[i].body,
                            notes |-> deck[i].notes,
                            imageUrl |-> MinimalImage(deck[i].imageUrl)])],
   timestamp |-> <<"Date.now()">>]

\* Math.random().toString(36).substring(2, 15): the n-th identifier drawn.
\* Identifiers are taken to be fresh: two draws never give the same one.
RandomId(n) == <<"id", ToString(n)>>

\* localStorage.setItem(key, text) that succeeds
SetItem(store, key, text) ==
  [k \in DOMAIN store \cup {key} |-> IF k = key THEN text ELSE store[k]]

\* localStorage.getItem(key) is not null
HasItem(store, key) == key \in DOMAIN store

\* Mutant of StorageFailed: the new identifier is returned without a toast
StorageFailedSilently(deck, store, n) ==
  [storage |-> store, drawn |-> n + 2,
   call |-> [toast |-> "none", key |-> RandomId(n + 1), id |-> RandomId(n + 2),
             writes |-> << [text |-> JsonText(FullRecord(deck)),
                            key |-> RandomId(n + 1), ok |-> FALSE],
                           [text |-> JsonText(MinimalRecord(deck)),
                            key |-> RandomId(n + 1), ok |-> FALSE] >>,
             input |-> deck]]

\* The outer catch of generatePresentationId, reached when the second write
\* threw as well: a destructive toast, and a newly drawn identifier returned
StorageFailed(deck, store, n) ==
  [storage |-> store, drawn |-> n + 2,
   call |-> [toast |-> "Storage Warning", key |-> RandomId(n + 1),
             id |-> RandomId(n + 2),
             writes |-> << [text |-> JsonText(FullRecord(deck)),
                            key |-> RandomId(n + 1), ok |-> FALSE],
                           [text |-> JsonText(MinimalRecord(deck)),
                            key |-> RandomId(n + 1), ok |-> FALSE] >>,
             input |-> deck]]

\* generatePresentationId() when localStorage lets the first write succeed
\* (fullOk) and, if not, the second (minimalOk): the storage afterwards and
\* the observation of the call
generatePresentationIdResult(deck, store, n, fullOk, minimalOk) ==
  LET uniqueId == RandomId(n + 1)
      full == JsonText(FullRecord(deck))
      minimal == JsonText(MinimalRecord(deck))
  IN
    IF fullOk THEN
      [storage |-> SetItem(store, uniqueId, full), drawn |-> n + 1,
       call |-> [toast |-> "none", key |-> uniqueId, id |-> uniqueId,
                 writes |-> << [text |-> full, key |-> uniqueId, ok |-> TRUE] >>,
                 input |-> deck]]
    ELSE IF minimalOk THEN
      [storage |-> SetItem(store, uniqueId, minimal), drawn |-> n + 1,
       call |-> [toast |-> "Limited Storage Mode", key |-> uniqueId, id |-> uniqueId,
                 writes |-> << [text |-> full, key |-> uniqueId, ok |-> FALSE],
                               [text |-> minimal, key |-> uniqueId, ok |-> TRUE] >>,
                 input |-> deck]]
    ELSE StorageFailed(deck, store, n)

generatePresentationId(fullOk, minimalOk) ==
  LET r == generatePresentationIdResult(slides, storage, nextId, fullOk, minimalOk) IN
    /\ nextId + 2 <= MaxIds
    /\ storage' = r.storage
    /\ nextId' = r.drawn
    /\ storeCalls' = Append(storeCalls, r.call)

\* handleGenerateQRCode: the QR dialog opens
handleGenerateQRCode(fullOk, minimalOk) ==
  /\ generatePresentationId(fullOk, minimalOk)
  /\ presentationId' = storeCalls'[Len(storeCalls')].id
  /\ UNCHANGED <<slides, currentSlide, formData, isGenerating, currentStep,
                 loadingMessage, isApiKeyDialogOpen, pendingImagePrompt, keyItem, pc,
                 presentation, tasks, run,
                 viewer, dialogTrigger, replay, failures, otherVars>>

\* onOpenChange(false) of the QR dialog
closeQRCode ==
  /\ presentationId # Null
  /\ presentationId' = Null
  /\ UNCHANGED <<slides, currentSlide, formData, isGenerating, currentStep,
                 loadingMessage, isApiKeyDialogOpen, pendingImagePrompt, keyItem,
                 storage, nextId, pc, presentation, tasks, run, storeCalls,
                 viewer, dialogTrigger, replay, failures, otherVars>>

(***************************************************************************)
(* Presentation viewer (src/src/pages/Present.tsx)                         *)
(***************************************************************************)
\* The Present page right after it is mounted on /present/<id>
Mounted(id) == [slides |-> <<>>, presentationId |-> id, isLoading |-> TRUE]

\* handleStartPresentation: window.open(`/present/${id}`)
handleStartPresentation(fullOk, minimalOk) ==
  /\ generatePresentationId(fullOk, minimalOk)
  /\ viewer' = Mounted(storeCalls'[Len(storeCalls')].id)
  /\ UNCHANGED <<slides, currentSlide, formData, isGenerating, currentStep,
                 loadingMessage, presentationId, isApiKeyDialogOpen,
                 pendingImagePrompt, keyItem, pc, presentation, tasks, run,
                 dialogTrigger, replay, failures, otherVars>>

\* The link of the QR code is opened in this browser
openQRCodeLink ==
  /\ presentationId # Null
  /\ viewer' = Mounted(presentationId)
  /\ UNCHANGED <<slides, currentSlide, formData, isGenerating, currentStep,
                 loadingMessage, presentationId, isApiKeyDialogOpen,
                 pendingImagePrompt, keyItem, storage, nextId, pc, presentation,
                 tasks, run, storeCalls, dialogTrigger, replay, failures, otherVars>>

\* A parsed slide object as the viewer reads it
LoadedSlide(o) ==
  MkSlide(Get(o, "title"), Get(o, "body"), Get(o, "notes"), Get(o, "imageUrl"),
          Get(o, "ai_image_description"))

FetchedImage == <<"data:", "image/png;base64,", "FETCHED">>

\* Mutant of ProcessLoadedSlide: every reference is fetched and converted
FetchEveryImage(slide, fetched) ==
  IF ~Truthy(slide.imageUrl) THEN slide ELSE WithImage(slide, FetchedImage)

\* The map callback of loadPresentation for one slide; `fetched` tells
\* whether fetch + FileReader of a reference that is neither embedded data
\* nor http(s) succeeds
ProcessLoadedSlide(slide, fetched) ==
  IF ~Truthy(slide.imageUrl) THEN slide
  ELSE IF StartsWith(slide.imageUrl, DataPrefix) \/ StartsWith(slide.imageUrl, HttpPrefix)
       THEN slide
  ELSE IF fetched THEN WithImage(slide, FetchedImage)
  ELSE slide

\* loadPresentation: the slides the viewer ends with; <<>> when the try
\* block threw (no item, text that is not JSON, no slides array)
LoadedSlides(store, id, fetched) ==
  IF ~HasItem(store, id) THEN <<>>
  ELSE LET storedData == store[id] IN
    IF ~storedData.json THEN <<>>
    ELSE IF "slides" \notin DOMAIN storedData.value THEN <<>>
    ELSE [i \in 1..Len(storedData.value.slides) |->
            ProcessLoadedSlide(LoadedSlide(storedData.value.slides[i]), fetched[i])]

loadPresentation(fetched) ==
  /\ viewer.isLoading
  /\ viewer' = [viewer EXCEPT !.slides = LoadedSlides(storage, viewer.presentationId,
                                                       fetched),
                              !.isLoading = FALSE]
  /\ UNCHANGED <<slides, currentSlide, formData, isGenerating, currentStep,
                 loadingMessage, presentationId, isApiKeyDialogOpen,
                 pendingImagePrompt, keyItem, storage, nextId, pc, presentation,
                 tasks, run, storeCalls, dialogTrigger, replay, failures, otherVars>>

(***************************************************************************)
(* Specification of the generation pipeline                                *)
(***************************************************************************)
StoredKeys == {Null, encryptKey(<<"sk-1">>)}

NoViewer == [slides |-> <<>>, presentationId |-> Null, isLoading |-> FALSE]

\* No image call awaited by the API-key dialog's onSuccess
NoReplay == [slides |-> <<>>, currentSlide |-> 0, prompt |-> Null, apiKey |-> Null,
             state |-> "none"]

\* No export, no share link and no request validation under way
NoExport == [slides |-> <<>>, pc |-> "none", title |-> <<>>, built |-> <<>>,
             fileName |-> Null, reports |-> <<>>, clock |-> 0,
             previous |-> [title |-> <<>>, fileName |-> Null]]
NoShareViewer == [slides |-> <<>>, isLoading |-> FALSE, token |-> Null,
                  slidesDefined |-> TRUE, rendered |-> "none"]
NoValidation == [request |-> Null, result |-> "none"]

\* No import is being read, no single-image generation and no second run of
\* handleSubmit is in flight
NoAsyncOps == [prompt |-> Null, apiKey |-> Null, import |-> "none", closure |-> <<>>,
               image |-> "none", secondRun |-> "none"]

\* Nothing but the Index page's form, deck and generation is active
OthersAtRest ==
  /\ dialogTrigger = "none"
  /\ replay = NoReplay
  /\ failures = {}
  /\ exporter = NoExport
  /\ shareViewer = NoShareViewer
  /\ validation = NoValidation
  /\ asyncOps = NoAsyncOps

Init ==
  /\ slides = sampleSlides
  /\ currentSlide = 0
  /\ formData = initialFormData
  /\ isGenerating = FALSE
  /\ currentStep = 1
  /\ loadingMessage = <<>>
  /\ presentationId = Null
  /\ isApiKeyDialogOpen = FALSE
  /\ pendingImagePrompt = Null
  /\ keyItem \in StoredKeys
  /\ storage = <<>>
  /\ nextId = 0
  /\ pc = "idle"
  /\ presentation = NoPresentation
  /\ tasks = NoTasks
  /\ run = NoRun
  /\ storeCalls = <<>>
  /\ viewer = NoViewer
  /\ OthersAtRest

Next ==
  \/ \E name \in {"topic", "description", "numberOfSlides", "duration", "style"} :
       \E value \in InputValues(name) : handleInputChange(name, value)
  \/ handleSubmit
  \/ \E c \in Completions : LLMResponse(c)
  \/ \E i \in 1..MaxSlides, resp \in ImageResponses : ImageResponse(i, resp)
  \/ \E s \in EditedSlides : handleSlideUpdate(0, s)
  \/ openApiKeyDialog
  \/ cancelApiKeyDialog
  \/ handleRemoveKey

Spec == Init /\ [][Next]_vars

(***************************************************************************)
(* Specification of the persistence adapter and the viewer: the deck in    *)
(* memory is any deck of at most MaxDeck slides that edits, imports and    *)
(* generations can have produced.                                          *)
(***************************************************************************)
StoredSlides ==
  { sampleSlides[1],
    MkSlide(<<"Generated">>, <<"g">>, <<"n">>, <<"data:", "image/png;base64,", "iVBOR">>,
            <<"a">>),
    MkSlide(<<"New Slide">>, <<"Add your content here">>, <<>>, Null, <<>>),
    MkSlide(<<"Imported">>, <<"i">>, Undef, <<"/images/", "2.png">>, <<"b">>),
    MkSlide(<<"Plain">>, <<"p">>, Undef, Undef, Undef),
    MkSlide(<<"Edited">>, <<"e">>, <<>>, <<>>, Undef) }

InitPersist ==
  /\ slides \in SeqsUpTo(StoredSlides, MaxDeck) \ {<<>>}
  /\ currentSlide = 0
  /\ formData = initialFormData
  /\ isGenerating = FALSE
  /\ currentStep = 1
  /\ loadingMessage = <<>>
  /\ presentationId = Null
  /\ isApiKeyDialogOpen = FALSE
  /\ pendingImagePrompt = Null
  /\ keyItem = Null
  /\ storage = <<>>
  /\ nextId = 0
  /\ pc = "idle"
  /\ presentation = NoPresentation
  /\ tasks = NoTasks
  /\ run = NoRun
  /\ storeCalls = <<>>
  /\ viewer = NoViewer
  /\ OthersAtRest

NextPersist ==
  \/ \E fullOk, minimalOk \in BOOLEAN : handleGenerateQRCode(fullOk, minimalOk)
  \/ \E fullOk, minimalOk \in BOOLEAN : handleStartPresentation(fullOk, minimalOk)
  \/ closeQRCode
  \/ openQRCodeLink
  \/ \E fetched \in [1..MaxDeck -> BOOLEAN] : loadPresentation(fetched)

SpecPersist == InitPersist /\ [][NextPersist]_vars

(***************************************************************************)
(* Properties of deck assembly                                             *)
(***************************************************************************)
Slots == 1..Len(tasks.slots)

\* The image call of slide i was answered with HTTP 401
Answered401(i) ==
  /\ tasks.slots[i].state = "settled"
  /\ tasks.slots[i].resp.kind = "response"
  /\ tasks.slots[i].resp.status = 401

InFallbackPool(img) == \E k \in 1..Len(fallbackImages) : fallbackImages[k] = img

\* generateImage threw its authentication error for slide i
AuthenticationFailed(i) == Answered401(i) /\ tasks.slots[i].threw

\* C1: when a per-slide image call of deck assembly fails with HTTP 401, the
\* authentication error aborts the assembly: no assembled deck is published
\* and the failing slide is not given a fallback image.
C1_AuthFailureAbortsAssembly ==
  \A i \in Slots :
    AuthenticationFailed(i) =>
      /\ run.outcome # "published"
      /\ ~InFallbackPool(tasks.slots[i].slide.imageUrl)

\* A step of a handleSubmit run, and the step in which it publishes
RunStep == run' # run \/ tasks' # tasks \/ pc' # pc
PublishStep == run'.setSlides > run.setSlides

\* C6: a handleSubmit run replaces the slides state at most once, and only
\* with the fully assembled deck once every per-slide promise has settled;
\* a run in which something failed, an image call's authentication
\* included, does not replace it, and no other step of a run changes it.
C6_DeckReplacedOnlyBySuccessfulRun ==
  [][RunStep =>
       /\ run'.setSlides <= 1
       /\ IF PublishStep
          THEN /\ run.setSlides = 0
               /\ run'.outcome = "published"
               /\ \A i \in 1..Len(tasks'.slots) :
                    /\ tasks'.slots[i].state = "settled"
                    /\ ~(tasks'.slots[i].resp.kind = "response"
                         /\ tasks'.slots[i].resp.status = 401
                         /\ tasks'.slots[i].threw)
               /\ Len(slides') = Len(tasks'.slots)
               /\ \A i \in 1..Len(slides') : slides'[i] = tasks'.slots[i].slide
          ELSE slides' = slides]_vars

\* Slide `out` is slide `inp` with, at most, another image
SameButImage(out, inp) ==
  \A k \in SlideKeys \ {"imageUrl"} : out[k] = inp[k]

\* C7: the deck a run publishes has the slides of the validated LLM
\* presentation, one for one and in the same order, whatever the order in
\* which the image calls completed.
C7_OrderPreserved ==
  [][PublishStep =>
       /\ Len(slides') = Len(presentation'.slides)
       /\ \A i \in 1..Len(slides') : SameButImage(slides'[i], presentation'.slides[i])]_vars

\* The second image call completed before the first, and the deck is published
C7_Witness ==
  /\ run.outcome = "published"
  /\ tasks.settled = <<2, 1>>
  /\ presentation.slides[1] # presentation.slides[2]
  /\ slides = [i \in 1..2 |-> tasks.slots[i].slide]

\* The image call of slide i was answered, or its fetch was rejected, and
\* it did not produce an image
ImageCallFailed(i) ==
  /\ tasks.slots[i].state = "settled"
  /\ tasks.slots[i].resp.kind # "none"
  /\ Truthy(presentation.slides[i].ai_image_description)
  /\ ~StartsWith(tasks.slots[i].slide.imageUrl, DataPrefix)

\* C8: the fallback image of a slide whose image call failed depends on the
\* description only: the same description gets the same fallback, whatever
\* the index of the slide and the kind of failure.
C8_FallbackByDescriptionOnly ==
  \A i, j \in Slots :
    (/\ ImageCallFailed(i) /\ ImageCallFailed(j)
     /\ presentation.slides[i].ai_image_description
          = presentation.slides[j].ai_image_description)
    => tasks.slots[i].slide.imageUrl = tasks.slots[j].slide.imageUrl

\* The image call of slide i failed, and not with HTTP 401: fetch rejected,
\* a non-2xx status, or a 2xx answer without image data
NonAuthFailure(i) ==
  /\ tasks.slots[i].state = "settled"
  /\ LET resp == tasks.slots[i].resp IN
       \/ resp.kind = "reject"
       \/ resp.kind = "response" /\ ~ResponseOk(resp) /\ resp.status # 401
       \/ resp.kind = "response" /\ ResponseOk(resp)
            /\ ~(resp.jsonOk /\ Truthy(resp.b64))

\* C9: on a failure of an image call other than HTTP 401, generateImage
\* does not throw but returns an image of the fallback pool.
C9_NonAuthFailureAbsorbed ==
  \A i \in Slots :
    NonAuthFailure(i) =>
      /\ ~tasks.slots[i].threw
      /\ InFallbackPool(tasks.slots[i].slide.imageUrl)

\* Slide i's image call is answered in this step, with HTTP 401
Answers401(i) ==
  /\ i \in Slots
  /\ tasks.slots[i].state = "pending"
  /\ i \in 1..Len(tasks'.slots)
  /\ tasks'.slots[i].state = "settled"
  /\ tasks'.slots[i].resp.status = 401

\* C10: when an image call is answered with HTTP 401, the stored key is
\* removed, the API-key dialog is opened, the description becomes the
\* pending image prompt and generateImage throws.
C10_Http401Surfaced ==
  [][\A i \in 1..MaxSlides :
       Answers401(i) =>
         /\ keyItem' = Null
         /\ isApiKeyDialogOpen'
         /\ pendingImagePrompt' = tasks.slots[i].slide.ai_image_description
         /\ tasks'.slots[i].threw]_vars


(***************************************************************************)
(* Properties of the persistence adapter and the viewer                    *)
(***************************************************************************)
Calls == 1..Len(storeCalls)

\* Call c of generatePresentationId ended with the full record stored, with
\* the reduced record stored, or with nothing stored
FullStored(c) == storeCalls[c].writes[1].ok
ReducedStored(c) ==
  /\ ~storeCalls[c].writes[1].ok
  /\ Len(storeCalls[c].writes) = 2
  /\ storeCalls[c].writes[2].ok
NothingStored(c) == \A w \in 1..Len(storeCalls[c].writes) : ~storeCalls[c].writes[w].ok

\* The viewer has loaded the record that call c stored
LoadedFrom(c) ==
  /\ ~viewer.isLoading
  /\ viewer.presentationId = storeCalls[c].id
  /\ ~NothingStored(c)

TextKeys == {"title", "body", "notes", "ai_image_description"}

\* C2: a deck stored by generatePresentationId and loaded by the viewer
\* under the returned id has the same number of slides, in the same order,
\* with every text field equal to the input, whether the full or the
\* reduced record was stored.
C2_TextFieldsRoundTrip ==
  \A c \in Calls :
    LoadedFrom(c) =>
      /\ Len(viewer.slides) = Len(storeCalls[c].input)
      /\ \A i \in 1..Len(viewer.slides) :
           \A k \in TextKeys : viewer.slides[i][k] = storeCalls[c].input[i][k]

\* The text is a whole record for the deck: JSON with a timestamp and one
\* slide object per slide of the deck, each with the deck's title and body
CompleteRecord(text, deck) ==
  /\ text.json
  /\ DOMAIN text.value = {"timestamp", "slides"}
  /\ Len(text.value.slides) = Len(deck)
  /\ \A i \in 1..Len(deck) :
       /\ Get(text.value.slides[i], "title") = deck[i].title
       /\ Get(text.value.slides[i], "body") = deck[i].body

\* The record carries embedded image data nowhere
Reduced(text) ==
  \A i \in 1..Len(text.value.slides) :
    LET img == Get(text.value.slides[i], "imageUrl") IN
      img \in {Undef, Null} \/ ~StartsWith(img, DataPrefix)

\* C3: when the write of the full record throws, exactly one more write is
\* attempted, under the same key, with the reduced record; the 'Limited
\* Storage Mode' notice is raised only when that write succeeded; the item
\* under the key is absent, the whole full record or the whole reduced one.
C3_RetryOnceWithReducedRecord ==
  \A c \in Calls :
    LET call == storeCalls[c] IN
      /\ Len(call.writes) = IF call.writes[1].ok THEN 1 ELSE 2
      /\ \A w \in 1..Len(call.writes) : call.writes[w].key = call.key
      /\ CompleteRecord(call.writes[1].text, call.input)
      /\ Len(call.writes) = 2 =>
           /\ CompleteRecord(call.writes[2].text, call.input)
           /\ Reduced(call.writes[2].text)
      /\ call.toast = "Limited Storage Mode" => ReducedStored(c)
      /\ IF HasItem(storage, call.key)
         THEN \/ FullStored(c) /\ storage[call.key] = call.writes[1].text
              \/ ReducedStored(c) /\ storage[call.key] = call.writes[2].text
         ELSE NothingStored(c)

\* The full write of a deck with an embedded image failed, the reduced one
\* succeeded and the notice was raised
C3_Witness ==
  \E c \in Calls :
    /\ ReducedStored(c)
    /\ storeCalls[c].toast = "Limited Storage Mode"
    /\ HasItem(storage, storeCalls[c].key)
    /\ \E i \in 1..Len(storeCalls[c].input) :
         StartsWith(storeCalls[c].input[i].imageUrl, DataPrefix)

\* The identifier is a string Math.random().toString(36) can give
IsIdentifier(id) == Len(id) = 2 /\ id[1] = "id"

\* This step is a call of generatePresentationId in which both writes failed
BothWritesFail ==
  /\ Len(storeCalls') = Len(storeCalls) + 1
  /\ \A w \in 1..Len(storeCalls'[Len(storeCalls')].writes) :
       ~storeCalls'[Len(storeCalls')].writes[w].ok

\* C4: when both writes fail, generatePresentationId reports the storage
\* failure and still returns an identifier, under which nothing is stored,
\* to its caller, which goes on with it; the deck in memory is unchanged.
C4_DoubleFailureReturnsId ==
  [][BothWritesFail =>
       LET call == storeCalls'[Len(storeCalls')] IN
         /\ call.toast = "Storage Warning"
         /\ IsIdentifier(call.id)
         /\ ~HasItem(storage', call.id)
         /\ storage' = storage
         /\ presentationId' = call.id \/ viewer' = Mounted(call.id)
         /\ slides' = slides]_vars

\* Both writes failed and the viewer was opened on the returned identifier
C4_Witness ==
  \E c \in Calls :
    /\ NothingStored(c)
    /\ Len(storeCalls[c].writes) = 2
    /\ viewer.presentationId = storeCalls[c].id
    /\ ~viewer.isLoading
    /\ viewer.slides = <<>>

UsedDirectly(img) ==
  \/ img \in {Undef, Null, <<>>}
  \/ StartsWith(img, DataPrefix)
  \/ StartsWith(img, HttpPrefix)

RequestInBounds(f) ==
  /\ f.topic # <<>>
  /\ f.description # <<>>
  /\ f.numberOfSlides \in 1..10
  /\ f.duration \in 1..30

\* This step issues the LLM request; this step issues image requests
LLMIssued == run'.llmCalls > run.llmCalls
ImageCallsIssued ==
  \E i \in 1..Len(tasks'.slots) :
    /\ tasks'.slots[i].state = "pending"
    /\ ~(i \in 1..Len(tasks.slots) /\ tasks.slots[i].state = "pending")
RequestRejected == run' # run /\ run'.outcome = "failed" /\ run'.failure = "request"

\* C12: handleSubmit issues its LLM request only for a request that is in
\* bounds, issues image requests only in a run whose LLM request was issued,
\* and a run that rejects the request issues no network call at all.
C12_ValidatedBeforeNetwork ==
  [][/\ LLMIssued => RequestInBounds(formData)
     /\ ImageCallsIssued => (pc = "llm" /\ run.outcome = "running" /\ run.llmCalls >= 1)
     /\ RequestRejected =>
          (run'.llmCalls = run.llmCalls /\ tasks' = tasks /\ pc' = "idle")
     /\ (pc = "idle" /\ pc' # "idle") => RequestInBounds(formData)]_vars

\* handleSubmit ran with a stored key on a request without a topic or a
\* description, and no network call has been made
C12_Witness ==
  /\ run.outcome = "failed" /\ run.failure = "request"
  /\ ~RequestInBounds(formData)
  /\ Truthy(getApiKey(keyItem))
  /\ run.llmCalls = 0
  /\ tasks = NoTasks

\* C14: a run that fails at JSON.parse, one that fails at
\* PresentationSchema.parse and one that fails at the validation of the
\* request end in outcomes that can be told apart.
C14_FailureStagesDistinguishable ==
  \A a, b \in failures :
    (a.stage # b.stage /\ {a.stage, b.stage} \subseteq {"parse", "schema", "request"})
      => a.toast # b.toast

\* C15: the deck a successful handleSubmit publishes has as many slides as
\* the validated presentation and every slide of it has an imageUrl that is
\* neither null nor empty.
C15_PublishedSlidesHaveImages ==
  [][PublishStep =>
       /\ Len(slides') = Len(presentation'.slides)
       /\ \A i \in 1..Len(slides') :
            slides'[i].imageUrl \notin {Undef, Null, <<>>}]_vars

\* A deck was published in which one slide came without description and
\* image and the image call of another failed without an answer
C15_Witness ==
  /\ run.outcome = "published"
  /\ \E i, j \in Slots :
       /\ ~Truthy(presentation.slides[i].ai_image_description)
       /\ presentation.slides[i].imageUrl = Null
       /\ tasks.slots[j].resp.kind = "reject"
       /\ \A k \in {i, j} : slides[k] = tasks.slots[k].slide

\* The slide has no description and has an image already
HasImageOnly(slide) == ~Truthy(slide.ai_image_description) /\ Truthy(slide.imageUrl)

\* C16: during deck assembly a slide without ai_image_description that has
\* an imageUrl never has an image call, and comes out equal to its input.
C16_SlideWithImageUntouched ==
  [][\A i \in 1..Len(tasks'.slots) :
       HasImageOnly(presentation'.slides[i]) =>
         /\ tasks'.slots[i].state = "settled"
         /\ tasks'.slots[i].resp = NoResponse
         /\ tasks'.slots[i].slide = presentation'.slides[i]
         /\ PublishStep => slides'[i] = presentation'.slides[i]]_vars

\* A deck was published with a slide that had only an image, next to a slide
\* whose image was generated
C16_Witness ==
  /\ run.outcome = "published"
  /\ \E i, j \in Slots :
       /\ HasImageOnly(presentation.slides[i])
       /\ slides[i] = presentation.slides[i]
       /\ tasks.slots[j].resp.kind = "response"
       /\ StartsWith(slides[j].imageUrl, DataPrefix)

\* What the schema promises of a slide: title and body are non-empty
\* strings, imageUrl is absent, null or a URL
SlideInvariant(slide) ==
  /\ NonEmptyString(Get(slide, "title"))
  /\ NonEmptyString(Get(slide, "body"))
  /\ Get(slide, "imageUrl") \in {Undef, Null} \/ IsUrl(Get(slide, "imageUrl"))

\* C23: every slide of a presentation PresentationSchema accepted has a
\* non-empty title and a non-empty body, and an imageUrl that is absent,
\* null or a well-formed URL, never the empty string; so has every slide
\* an image task has assembled and every slide of the deck a run publishes.
C23_SlideInvariantKept ==
  [][/\ \A i \in 1..Len(presentation'.slides) : SlideInvariant(presentation'.slides[i])
     /\ \A i \in 1..Len(tasks'.slots) :
          tasks'.slots[i].state = "settled" => SlideInvariant(tasks'.slots[i].slide)
     /\ PublishStep =>
          \A i \in 1..Len(slides') : SlideInvariant(slides'[i])]_vars

\* A deck was published from a presentation with an imageUrl of null, one
\* with a URL and a generated image
C23_Witness ==
  /\ run.outcome = "published"
  /\ Len(presentation.slides) = 2
  /\ \E i, j \in Slots :
       /\ presentation.slides[i].imageUrl = Null
       /\ IsUrl(slides[i].imageUrl)
       /\ presentation.slides[j].imageUrl = Undef
       /\ StartsWith(slides[j].imageUrl, DataPrefix)

(***************************************************************************)
(* Specification of request validation: PresentationRequest applied to a   *)
(* request drawn from a bounded set of objects                             *)
(***************************************************************************)
\* The Index page as it is mounted, without a stored key
IndexAtRest ==
  /\ slides = sampleSlides
  /\ currentSlide = 0
  /\ formData = initialFormData
  /\ isGenerating = FALSE
  /\ currentStep = 1
  /\ loadingMessage = <<>>
  /\ presentationId = Null
  /\ isApiKeyDialogOpen = FALSE
  /\ pendingImagePrompt = Null
  /\ keyItem = Null
  /\ storage = <<>>
  /\ nextId = 0
  /\ pc = "idle"
  /\ presentation = NoPresentation
  /\ tasks = NoTasks
  /\ run = NoRun
  /\ storeCalls = <<>>
  /\ viewer = NoViewer
  /\ dialogTrigger = "none"
  /\ replay = NoReplay
  /\ failures = {}

indexVars == <<slides, currentSlide, formData, isGenerating, currentStep,
               loadingMessage, presentationId, isApiKeyDialogOpen,
               pendingImagePrompt, keyItem, storage, nextId, pc, presentation,
               tasks, run, storeCalls, viewer, dialogTrigger, replay, failures>>

Requests ==
  [topic : {<<>>, <<"Mars">>},
   description : {<<>>, <<"intro">>},
   numberOfSlides : {Num(0, 1), Num(1, 1), Num(5, 2), Num(10, 1), Num(11, 1), NaN},
   duration : {Num(0, 1), Num(1, 1), Num(3, 2), Num(30, 1), Num(31, 1)},
   style : {"professional", "casual", "academic", "fancy", StyleAbsent}]

InitRequest ==
  /\ IndexAtRest
  /\ exporter = NoExport
  /\ shareViewer = NoShareViewer
  /\ asyncOps = NoAsyncOps
  /\ validation \in {[request |-> r, result |-> "none"] : r \in Requests}

\* PresentationRequest.safeParse(request)
validateRequest ==
  /\ validation.result = "none"
  /\ validation' = [validation EXCEPT !.result =
                      IF PresentationRequestAccepts(validation.request)
                      THEN "accepted" ELSE "rejected"]
  /\ UNCHANGED <<indexVars, exporter, shareViewer, asyncOps>>

NextRequest == validateRequest

SpecRequest == InitRequest /\ [][NextRequest]_vars

\* The number is an integer between lo and hi
IntegerIn(x, lo, hi) ==
  /\ x.den > 0
  /\ x.num % x.den = 0
  /\ x.num >= lo * x.den
  /\ x.num <= hi * x.den

\* C13: PresentationRequest accepts every request with a topic, a
\* description, an integer numberOfSlides in [1,10], an integer duration in
\* [1,30] and one of the three styles, and rejects every request whose
\* numberOfSlides or duration is out of its range or is not an integer.
C13_RequestValidation ==
  LET r == validation.request IN
    validation.result # "none" =>
      /\ ( /\ r.topic # <<>> /\ r.description # <<>>
           /\ IntegerIn(r.numberOfSlides, 1, 10)
           /\ IntegerIn(r.duration, 1, 30)
           /\ r.style \in {"professional", "casual", "academic"} )
         => validation.result = "accepted"
      /\ (~IntegerIn(r.numberOfSlides, 1, 10) \/ ~IntegerIn(r.duration, 1, 30))
         => validation.result = "rejected"

(***************************************************************************)
(* Share links: the PresentationMode that decodes a share token            *)
(* (src/unnamed/part_003) and the one that loads a stored record           *)
(* (src/src/pages/Present.tsx), opened on any link                         *)
(***************************************************************************)
\* What JSON.parse gives for the text `null`: a value none of whose
\* properties can be read
JsonNull == [null |-> TRUE]
IsJsonNull(v) == "null" \in DOMAIN v

\* encodeForShare(deck): a base64 text of the JSON text of { slides: deck }
encodeForShare(deck) ==
  [text |-> JsonText([slides |-> [i \in 1..Len(deck) |-> Stringify(deck[i])]]),
   b64 |-> TRUE]

\* Tokens that no encoding gives: not base64, base64 of a text that is not
\* JSON, of `null`, of an object without a slides property
MalformedTokens ==
  { [text |-> NotJson, b64 |-> FALSE],
    [text |-> NotJson, b64 |-> TRUE],
    [text |-> JsonText(JsonNull), b64 |-> TRUE],
    [text |-> JsonText([title |-> RawTitle]), b64 |-> TRUE] }

SharedDecks == SeqsUpTo(StoredSlides, MaxDeck) \ {<<>>}

\* Mutant of DecodeToken: the decoded slides lose their image
DecodeTokenWithoutImages(token) ==
  IF ~token.b64 \/ ~token.text.json \/ IsJsonNull(token.text.value)
  THEN [slides |-> <<>>, threw |-> TRUE, defined |-> TRUE]
  ELSE IF "slides" \notin DOMAIN token.text.value
  THEN [slides |-> <<>>, threw |-> FALSE, defined |-> FALSE]
  ELSE LET s == token.text.value.slides IN
         [slides |-> [i \in 1..Len(s) |->
                        [k \in DOMAIN s[i] \ {"imageUrl"} |-> s[i][k]]], threw |-> FALSE,
          defined |-> TRUE]

\* The try block of the decode effect: JSON.parse(atob(presentationId)),
\* then setSlides(decodedData.slides).  threw: it threw before setSlides;
\* defined: decodedData.slides was not undefined
DecodeToken(token) ==
  IF ~token.b64 THEN [slides |-> <<>>, threw |-> TRUE, defined |-> TRUE]
  ELSE IF ~token.text.json THEN [slides |-> <<>>, threw |-> TRUE, defined |-> TRUE]
  ELSE IF IsJsonNull(token.text.value)
  THEN [slides |-> <<>>, threw |-> TRUE, defined |-> TRUE]
  ELSE IF "slides" \notin DOMAIN token.text.value
  THEN [slides |-> <<>>, threw |-> FALSE, defined |-> FALSE]
  ELSE [slides |-> token.text.value.slides, threw |-> FALSE, defined |-> TRUE]

\* What PresentationMode renders: reading slides.length of undefined throws;
\* the spinner while loading; the invalid-link screen for no slides
Screen(slidesDefined, slidesState, isLoading) ==
  IF ~slidesDefined THEN "crashed"
  ELSE IF isLoading THEN "loading"
  ELSE IF Len(slidesState) = 0 THEN "invalid-link"
  ELSE "deck"

\* The route /present/<token> is opened: PresentationMode mounts
openShareLink(token) ==
  /\ shareViewer.rendered = "none"
  /\ shareViewer' = [slides |-> <<>>, isLoading |-> TRUE, token |-> token,
                     slidesDefined |-> TRUE, rendered |-> Screen(TRUE, <<>>, TRUE)]
  /\ UNCHANGED <<indexVars, exporter, validation, asyncOps>>

\* The decode effect, and the render that follows it
decodeShareToken ==
  /\ shareViewer.isLoading
  /\ LET d == DecodeToken(shareViewer.token) IN
       shareViewer' =
         IF d.threw
         THEN [shareViewer EXCEPT !.isLoading = FALSE,
                 !.rendered = Screen(shareViewer.slidesDefined, shareViewer.slides,
                                     FALSE)]
         ELSE [shareViewer EXCEPT !.slides = d.slides, !.slidesDefined = d.defined,
                 !.isLoading = FALSE,
                 !.rendered = Screen(d.defined, d.slides, FALSE)]
  /\ UNCHANGED <<indexVars, exporter, validation, asyncOps>>

\* Items localStorage can hold under 'presentation_<id>' that
\* generatePresentationId did not write
MalformedRecords ==
  { NotJson, JsonText(JsonNull), JsonText([timestamp |-> <<"Date.now()">>]) }

LinkIds == {RandomId(1), RandomId(2)}

\* The route /present/<id> is opened on any identifier
openPresentLink(id) ==
  /\ viewer = NoViewer
  /\ viewer' = Mounted(id)
  /\ UNCHANGED <<slides, currentSlide, formData, isGenerating, currentStep,
                 loadingMessage, presentationId, isApiKeyDialogOpen,
                 pendingImagePrompt, keyItem, storage, nextId, pc, presentation,
                 tasks, run, storeCalls, dialogTrigger, replay, failures, otherVars>>

InitShare ==
  /\ slides = sampleSlides
  /\ currentSlide = 0
  /\ formData = initialFormData
  /\ isGenerating = FALSE
  /\ currentStep = 1
  /\ loadingMessage = <<>>
  /\ presentationId = Null
  /\ isApiKeyDialogOpen = FALSE
  /\ pendingImagePrompt = Null
  /\ keyItem = Null
  /\ storage \in {<<>>} \cup {SetItem(<<>>, RandomId(1), text) : text \in MalformedRecords}
  /\ nextId = 0
  /\ pc = "idle"
  /\ presentation = NoPresentation
  /\ tasks = NoTasks
  /\ run = NoRun
  /\ storeCalls = <<>>
  /\ viewer = NoViewer
  /\ OthersAtRest

NextShare ==
  \/ \E token \in MalformedTokens : openShareLink(token)
  \/ \E d \in SharedDecks : openShareLink(encodeForShare(d))
  \/ decodeShareToken
  \/ \E id \in LinkIds : openPresentLink(id)
  \/ \E fetched \in [1..MaxDeck -> BOOLEAN] : loadPresentation(fetched)

SpecShare == InitShare /\ [][NextShare]_vars

\* The token is not the encoding of an object with a slides array
Malformed(token) ==
  \/ ~token.b64
  \/ ~token.text.json
  \/ IsJsonNull(token.text.value)
  \/ "slides" \notin DOMAIN token.text.value

PresentScreen == Screen(TRUE, viewer.slides, viewer.isLoading)

\* C18: on a malformed share token, a malformed stored record or an
\* identifier without a record the viewer ends with isLoading = false, no
\* slides and the invalid-link screen; while it is loading, the step that
\* ends the loading is enabled; its render never fails.
C18_MalformedLinkShowsInvalidScreen ==
  /\ shareViewer.rendered # "crashed"
  /\ shareViewer.isLoading => ENABLED decodeShareToken
  /\ (shareViewer.rendered # "none" /\ Malformed(shareViewer.token)
      /\ ~shareViewer.isLoading) =>
       (shareViewer.slides = <<>> /\ shareViewer.rendered = "invalid-link")
  /\ PresentScreen # "crashed"
  /\ viewer.isLoading => ENABLED loadPresentation([i \in 1..MaxDeck |-> TRUE])
  /\ (viewer # NoViewer /\ ~viewer.isLoading) =>
       (viewer.slides = <<>> /\ PresentScreen = "invalid-link")

(***************************************************************************)
(* Specification of the PowerPoint export: exportToPowerPoint on any deck  *)
(* of at most MaxDeck slides, one step per iteration of its loop, every    *)
(* outcome of the image fetch, then the save.                              *)
(***************************************************************************)
\* The transparent 1x1 PNG the export falls back to
PlaceholderImage == <<"data:", "image/png;base64,", "iVBORw0KGgoAAAANSUhEUgAAAAEAAAAB">>

\* fetch(slide.imageUrl), response.blob() and FileReader.readAsDataURL:
\* ok and non2xx both resolve with a body, rejected is a fetch that throws,
\* unreadable a response.blob() that rejects, readerror a reader whose
\* result is null when onloadend fires
FetchOutcomes == {"ok", "non2xx", "rejected", "unreadable", "readerror"}

\* The blob of a response: the image, or the error page of a non-2xx answer
ResponseBlob(url, outcome) ==
  IF outcome = "ok" THEN <<"image-at">> \o url ELSE <<"error-page-of">> \o url

\* FileReader.readAsDataURL
ReadAsDataURL(blob) == <<"data:", "base64,">> \o blob

\* The inner try/catch: the data handed to addImage for an imageUrl that
\* does not start with 'data:'
FetchedImageData(url, outcome) ==
  IF outcome \in {"rejected", "unreadable"} THEN PlaceholderImage
  ELSE IF outcome = "readerror" THEN Null
  ELSE ReadAsDataURL(ResponseBlob(url, outcome))

\* pptSlide.addImage throws on data that is not a string; the outer catch
\* of the export is written for that
AddImageThrows(data) == data = Null

\* Mutant of BuildSlide: an image box on every slide, notes on none
BuildSlideImageAlways(slide, outcome) ==
  [notes |-> <<>>,
   fetched |-> "none",
   texts |-> <<slide.title, slide.body>>,
   images |-> <<PlaceholderImage>>]

\* One iteration of the loop: addSlide, the two addText calls, the image
\* block and the notes.  fetched records the outcome of the fetch, "none"
\* when the iteration fetched nothing
BuildSlide(slide, outcome) ==
  LET imageUrl == Get(slide, "imageUrl")
      notes == Get(slide, "notes")
      fetches == Truthy(imageUrl) /\ ~StartsWith(imageUrl, DataPrefix)
      imageData == IF fetches THEN FetchedImageData(imageUrl, outcome) ELSE imageUrl
  IN [notes |-> IF Truthy(notes) THEN <<notes>> ELSE <<>>,
      fetched |-> IF fetches THEN outcome ELSE "none",
      texts |-> <<slide.title, slide.body>>,
      images |-> IF ~Truthy(imageUrl) THEN <<>>
                 ELSE IF AddImageThrows(imageData) THEN <<PlaceholderImage>>
                 ELSE <<imageData>>]

\* Titles, one character per token
ExportTitles ==
  { <<"F", "l", "a", "m", "S", "l", "i", "d", "e", "s", " ", "P">>,
    <<"Q", "3", " ", "&", "q", "!">> }

LowerCase == [c \in {"F", "S", "P", "Q"} |->
                CASE c = "F" -> "f" [] c = "S" -> "s" [] c = "P" -> "p" [] c = "Q" -> "q"]

AlphaNumerics == {"F", "S", "P", "Q", "l", "a", "m", "i", "d", "e", "s", "q", "3"}

\* title.replace(/[^a-z0-9]/gi, '_').toLowerCase()
SanitizeTitle(title) ==
  [i \in 1..Len(title) |->
     IF title[i] \notin AlphaNumerics THEN "_"
     ELSE IF title[i] \in DOMAIN LowerCase THEN LowerCase[title[i]]
     ELSE title[i]]

\* `${...}_${Date.now()}.pptx`
ExportFileName(title, now) == SanitizeTitle(title) \o <<"_", ToString(now), ".pptx">>

\* What the onProgress callback can do when it is called
CallbackOutcomes == {"returns", "throws"}

\* onProgress?.({status, current, total}); built is the number of slides
\* complete when the report is made
ProgressReport(current, total, built) ==
  [built |-> built, current |-> current, total |-> total]

\* exportToPowerPoint(slides, title) is called: the presentation is created.
\* previous keeps the title and the file name of the export that returned
\* last
StartedExport(e, deck, title) ==
  [slides |-> deck, pc |-> "slides", title |-> title, built |-> <<>>,
   fileName |-> Null, reports |-> <<>>, clock |-> e.clock,
   previous |-> IF e.pc = "done"
                THEN [title |-> e.title, fileName |-> e.fileName]
                ELSE e.previous]

exportToPowerPoint(deck, title) ==
  /\ exporter.pc \in {"none", "done"}
  /\ exporter' = StartedExport(exporter, deck, title)
  /\ UNCHANGED <<indexVars, shareViewer, validation, asyncOps>>

\* One iteration of the loop over the slides, as the exporter it leaves.
\* onSlide and onImage are what the callback does on the report of the slide
\* (line 49, outside every try: a throw rejects the export before addSlide)
\* and on the report of the image (line 80, inside the outer try: a throw
\* skips the fetch and the outer catch adds the placeholder)
ExportedSlide(e, outcome, onSlide, onImage) ==
  LET i == Len(e.built) + 1
      n == Len(e.slides)
      slide == e.slides[i]
      hasImage == Truthy(Get(slide, "imageUrl"))
      slideReport == ProgressReport(i, n, i - 1)
  IN
    IF onSlide = "throws" THEN
      [e EXCEPT !.pc = "failed", !.reports = Append(@, slideReport)]
    ELSE IF ~hasImage THEN
      [e EXCEPT !.built = Append(@, BuildSlide(slide, outcome)),
                !.reports = Append(@, slideReport)]
    ELSE
      [e EXCEPT
         !.built = Append(@, IF onImage = "throws"
                             THEN [BuildSlide(slide, outcome) EXCEPT
                                     !.images = <<PlaceholderImage>>,
                                     !.fetched = "none"]
                             ELSE BuildSlide(slide, outcome)),
         !.reports = @ \o <<slideReport, ProgressReport(i, n, i - 1)>>]

exportSlide(outcome, onSlide, onImage) ==
  /\ exporter.pc = "slides"
  /\ Len(exporter.built) < Len(exporter.slides)
  /\ exporter' = ExportedSlide(exporter, outcome, onSlide, onImage)
  /\ UNCHANGED <<indexVars, shareViewer, validation, asyncOps>>

\* After the loop, as the exporter it leaves: the last report (a throw of
\* the callback rejects the export), the file name from Date.now(),
\* pptx.writeFile, return fileName
WrittenFile(e, now, onFinal) ==
  LET n == Len(e.slides)
      reports == Append(e.reports, ProgressReport(n, n, n))
  IN
    IF onFinal = "throws" THEN [e EXCEPT !.pc = "failed", !.reports = reports]
    ELSE [e EXCEPT !.pc = "done", !.reports = reports, !.clock = now,
                   !.fileName = ExportFileName(e.title, now)]

writeFile(now, onFinal) ==
  /\ exporter.pc = "slides"
  /\ Len(exporter.built) = Len(exporter.slides)
  /\ now >= exporter.clock
  /\ exporter' = WrittenFile(exporter, now, onFinal)
  /\ UNCHANGED <<indexVars, shareViewer, validation, asyncOps>>

InitExport ==
  /\ IndexAtRest
  /\ OthersAtRest

NextExport ==
  \/ \E deck \in SeqsUpTo(StoredSlides, MaxDeck), title \in ExportTitles :
       exportToPowerPoint(deck, title)
  \/ \E outcome \in FetchOutcomes, onSlide \in CallbackOutcomes,
        onImage \in CallbackOutcomes : exportSlide(outcome, onSlide, onImage)
  \/ \E now \in 1..MaxClock, onFinal \in CallbackOutcomes : writeFile(now, onFinal)

SpecExport == InitExport /\ [][NextExport]_vars

\* The export has run to its end
ExportDone == exporter.pc = "done"

\* C19: exportToPowerPoint completes and returns the file name whatever the
\* image fetches do, and an image whose fetch or conversion failed (a
\* rejected fetch, a non-2xx response, an unreadable body) is replaced by
\* the fixed transparent placeholder.
C19_ExportSurvivesImageFailures ==
  /\ (exporter.pc = "slides" /\ Len(exporter.built) < Len(exporter.slides)) =>
       \A outcome \in FetchOutcomes : ENABLED exportSlide(outcome, "returns", "returns")
  /\ (exporter.pc = "slides" /\ Len(exporter.built) = Len(exporter.slides)) =>
       ENABLED writeFile(MaxClock, "returns")
  /\ ExportDone => IsString(exporter.fileName)
  /\ \A i \in 1..Len(exporter.built) :
       exporter.built[i].fetched \in FetchOutcomes \ {"ok"} =>
         exporter.built[i].images = <<PlaceholderImage>>

\* C20: the export gives one output slide per input slide, in order; each
\* has exactly the title and the body text box, one image box exactly when
\* the input slide has a non-empty imageUrl, and notes exactly when it has
\* non-empty notes.
C20_ExportSlideStructure ==
  /\ Len(exporter.built) <= Len(exporter.slides)
  /\ ExportDone => Len(exporter.built) = Len(exporter.slides)
  /\ \A i \in 1..Len(exporter.built) :
       LET slide == exporter.slides[i]
           out == exporter.built[i]
       IN /\ out.texts = <<slide.title, slide.body>>
          /\ Len(out.images) = IF Truthy(Get(slide, "imageUrl")) THEN 1 ELSE 0
          /\ out.notes = IF Truthy(Get(slide, "notes")) THEN <<Get(slide, "notes")>>
                         ELSE <<>>

\* A two-slide deck was exported whose first slide has an image and notes
\* and whose second has neither
C20_Witness ==
  /\ ExportDone
  /\ Len(exporter.slides) = 2
  /\ Truthy(Get(exporter.slides[1], "imageUrl"))
  /\ Truthy(Get(exporter.slides[1], "notes"))
  /\ ~Truthy(Get(exporter.slides[2], "imageUrl"))
  /\ ~Truthy(Get(exporter.slides[2], "notes"))
  /\ Len(exporter.built[1].images) = 1
  /\ Len(exporter.built[2].images) = 0

\* The characters a sanitized title is made of
SanitizedCharacters == {"_", "f", "s", "p", "q", "l", "a", "m", "i", "d", "e", "3"}

\* C21: two exports of one title never return the same file name, even when
\* both are saved in the same clock millisecond; the file name is the title
\* with every non-alphanumeric character replaced and the rest lowercased,
\* followed by the timestamp of the save.
C21_FileNamesNeverCollide ==
  ExportDone =>
    /\ Len(exporter.fileName) = Len(exporter.title) + 3
    /\ \A i \in 1..Len(exporter.title) : exporter.fileName[i] \in SanitizedCharacters
    /\ exporter.fileName[Len(exporter.title) + 2] = ToString(exporter.clock)
    /\ (IsString(exporter.previous.fileName) /\ exporter.previous.title = exporter.title)
         => exporter.fileName # exporter.previous.fileName

Reports == 1..Len(exporter.reports)

\* The slide as the export builds it under a callback that returns
BuiltUndisturbed(i) ==
  \E outcome \in FetchOutcomes \cup {"none"} :
    exporter.built[i] = BuildSlide(exporter.slides[i], outcome)

\* C22: in an export of n >= 1 slides every progress report has total = n
\* and a current index in 1..n, the current indices never decrease, every slide
\* is reported before it is built, the last report of a finished export has
\* current = n, and whatever the callback does the export does not fail and
\* builds every slide as it would have without it.
C22_ProgressIsObservationOnly ==
  /\ \A r \in Reports :
       /\ exporter.reports[r].total = Len(exporter.slides)
       /\ Len(exporter.slides) > 0 =>
            exporter.reports[r].current \in 1..Len(exporter.slides)
       /\ r > 1 => exporter.reports[r - 1].current <= exporter.reports[r].current
  /\ \A i \in 1..Len(exporter.built) :
       \E r \in Reports : exporter.reports[r].current = i /\ exporter.reports[r].built < i
  /\ ExportDone =>
       exporter.reports[Len(exporter.reports)].current = Len(exporter.slides)
  /\ exporter.pc # "failed"
  /\ \A i \in 1..Len(exporter.built) : BuiltUndisturbed(i)

(***************************************************************************)
(* Specification of the generation pipeline together with the API-key      *)
(* dialog's save: ApiKeyDialog.handleSubmit and the onSuccess callback     *)
(* Index passes to it.                                                     *)
(***************************************************************************)
\* What the user can type into the dialog's key field
TypedKeys == {<<>>, <<"sk-2">>}

\* ApiKeySchema.parse inside storeApiKey: the key is a non-empty string
ApiKeySchemaOk(key) == NonEmptyString(key)

\* ApiKeyDialog.handleSubmit followed by onSuccess up to its first await:
\* storeApiKey throws on a key the schema rejects (toast, nothing else);
\* otherwise the key is stored and onSuccess either issues the image call
\* for the pending prompt, keeping the slides and currentSlide of its
\* closure, or calls handleSubmit; the dialog is closed.  With no pending
\* prompt the save is taken only while no generation runs, the model
\* holding one run of handleSubmit at a time
saveApiKey(key) ==
  /\ isApiKeyDialogOpen
  /\ replay.state = "none"
  /\ IF ~ApiKeySchemaOk(key) THEN
       UNCHANGED <<keyItem, pendingImagePrompt, replay, isApiKeyDialogOpen,
                   isGenerating, currentStep, loadingMessage, pc, run,
                   presentation, tasks, failures>>
     ELSE
       /\ keyItem' = encryptKey(key)
       /\ isApiKeyDialogOpen' = FALSE
       /\ IF Truthy(pendingImagePrompt) THEN
            /\ pendingImagePrompt' = Null
            /\ replay' = [slides |-> slides, currentSlide |-> currentSlide,
                          prompt |-> pendingImagePrompt, apiKey |-> getApiKey(encryptKey(key)),
                          state |-> "pending"]
            /\ UNCHANGED <<isGenerating, currentStep, loadingMessage, pc, run,
                           presentation, tasks, failures>>
          ELSE
            /\ pc = "idle"
            /\ StartRun
            /\ UNCHANGED <<pendingImagePrompt, replay>>
  /\ UNCHANGED <<slides, currentSlide, formData, presentationId, storage, nextId,
                 storeCalls, viewer, dialogTrigger, otherVars>>

\* onSuccess from the resolution of its generateImage call: the image
\* replaces the one of the current slide in the slides of the closure, or
\* the error is logged
ReplayImageResponse(resp) ==
  /\ replay.state = "pending"
  /\ LET gi == generateImage(replay.prompt, replay.apiKey, resp) IN
       /\ GenerateImageEffects(gi, replay.prompt)
       /\ slides' = IF gi.threw \/ replay.currentSlide >= Len(replay.slides)
                    THEN slides
                    ELSE [replay.slides EXCEPT ![replay.currentSlide + 1] =
                            [k \in DOMAIN @ \cup {"imageUrl"} |->
                               IF k = "imageUrl" THEN gi.value ELSE @[k]]]
  /\ replay' = NoReplay
  /\ UNCHANGED <<currentSlide, formData, isGenerating, currentStep, loadingMessage,
                 presentationId, storage, nextId, pc, presentation, tasks, run,
                 storeCalls, viewer, failures, otherVars>>

NextAuth ==
  \/ Next
  \/ \E key \in TypedKeys : saveApiKey(key)
  \/ \E resp \in ImageResponses : ReplayImageResponse(resp)

SpecAuth == Init /\ [][NextAuth]_vars

\* A step that stored a key: only the dialog's save does
KeySaved == keyItem' # keyItem /\ Truthy(getApiKey(keyItem'))

\* The step issued the image call for the prompt that was pending
ImageReplayed ==
  /\ replay.state = "none"
  /\ replay'.state = "pending"
  /\ replay'.prompt = pendingImagePrompt

\* A form submit that finds a stored key, or a key save: the user actions
\* that call handleSubmit past its key test
UserStartsRun ==
  \/ isApiKeyDialogOpen /\ ~isApiKeyDialogOpen' /\ Truthy(getApiKey(keyItem'))
  \/ pc = "idle" /\ ~isGenerating /\ ~isApiKeyDialogOpen /\ Truthy(getApiKey(keyItem))

\* C24: one call of handleSubmit issues at most one LLM request: a step
\* issues at most one, only a form submit or a key save issues any, and so
\* none follows a request-validation, parse or schema failure before the
\* next user action.
C24_SingleAttempt ==
  [][/\ run'.llmCalls <= run.llmCalls + 1
     /\ LLMIssued => (UserStartsRun /\ pc' = "llm" /\ run'.outcome = "running")
     /\ (run'.failure \in {"request", "parse", "schema"} /\ run'.outcome = "failed")
          => pc' = "idle" /\ ~LLMIssued]_vars

\* A run ended in a parse or schema failure after its one LLM request
C24_Witness ==
  /\ run.outcome = "failed"
  /\ run.failure \in {"parse", "schema"}
  /\ run.llmCalls = 1
  /\ pc = "idle"
  /\ ~isGenerating

\* C11: a key save that follows an authentication stop replays, exactly
\* once, the operation that stopped: the deck generation when handleSubmit
\* found no key (its request being valid, the LLM request is issued and no
\* image call is), the image generation for the pending prompt when
\* generateImage found no key or was answered 401 (and no LLM request is
\* issued).
C11_KeySaveReplaysTrigger ==
  [][KeySaved =>
       /\ (dialogTrigger = "handleSubmit" /\ PresentationRequestOk(formData)) =>
            (LLMIssued /\ replay' = replay)
       /\ dialogTrigger = "generateImage" =>
            (ImageReplayed /\ ~LLMIssued)]_vars

(***************************************************************************)
(* Specification of the generation pipeline under the assumption that      *)
(* every network call returns: the response of the LLM call and of every   *)
(* pending image call is eventually delivered.                             *)
(***************************************************************************)
SpecLive ==
  /\ Init
  /\ [][Next]_vars
  /\ WF_vars(\E c \in Completions : LLMResponse(c))
  /\ WF_vars(\E i \in 1..MaxSlides, resp \in ImageResponses : ImageResponse(i, resp))

\* A run of handleSubmit waits for a network call
RunInFlight == pc # "idle"

\* The run has ended: the deck is published, or the run failed and set the
\* step back
RunEnded ==
  /\ pc = "idle"
  /\ ~isGenerating
  /\ loadingMessage = <<>>
  /\ \/ run.outcome = "published" /\ currentStep = 3
     \/ run.outcome = "failed" /\ currentStep = 1

\* C25: when every network call returns, every started run of handleSubmit
\* ends with isGenerating = false and an empty loadingMessage, having
\* published the deck (currentStep = 3) or failed without replacing it
\* (currentStep = 1); a run publishes only when every image call has
\* returned, and an image call that has not returned keeps the run going.
C25_RunTerminates ==
  /\ RunInFlight ~> RunEnded
  /\ [][/\ PublishStep =>
             \A i \in 1..Len(tasks'.slots) : tasks'.slots[i].state = "settled"
        /\ (\E i \in 1..Len(tasks'.slots) : tasks'.slots[i].state = "pending") =>
             (pc' = "images" /\ isGenerating')]_vars

\* A run has published after its two image calls returned
C25_Witness ==
  /\ RunEnded
  /\ run.outcome = "published"
  /\ Len(tasks.slots) = 2
  /\ \A i \in Slots : tasks.slots[i].resp.kind # "none"

(***************************************************************************)
(* Slide manager (src/src/components/SlideManager.tsx): selection, new     *)
(* slide, removal, move and import, on the slides and the currentSlide of  *)
(* the Index page.                                                         *)
(***************************************************************************)
\* Everything but the deck, the selection and the operations in flight
deckFrame == <<formData, isGenerating, currentStep, loadingMessage, presentationId,
               isApiKeyDialogOpen, pendingImagePrompt, keyItem, storage, nextId, pc,
               presentation, tasks, run, storeCalls, viewer, dialogTrigger, replay,
               failures, exporter, shareViewer, validation>>

\* The slide addNewSlide appends
NewSlide == MkSlide(<<"New Slide">>, <<"Add your content here">>, <<>>, Null, <<>>)

\* onSlideSelect(index) from a click on a slide of the list, and
\* onSlideChange(index) from the slideshow, which reduces modulo the length
onSlideSelect(index) ==
  /\ index \in 0..(Len(slides) - 1)
  /\ currentSlide' = index
  /\ UNCHANGED <<slides, asyncOps, deckFrame>>

addNewSlide ==
  /\ Len(slides) < MaxDeckLen
  /\ slides' = Append(slides, NewSlide)
  /\ currentSlide' = Len(slides)
  /\ UNCHANGED <<asyncOps, deckFrame>>

\* slides.filter((_, i) => i !== index)
WithoutSlide(deck, index) ==
  [i \in 1..(Len(deck) - 1) |-> IF i <= index THEN deck[i] ELSE deck[i + 1]]

\* Mutant of removeSlide: the last slide can be removed too
removeSlideUnguarded(index) ==
  /\ index \in 0..(Len(slides) - 1)
  /\ slides' = WithoutSlide(slides, index)
  /\ currentSlide' = IF currentSlide >= Len(slides) - 1
                     THEN Len(slides) - 2 ELSE currentSlide
  /\ UNCHANGED <<asyncOps, deckFrame>>

removeSlide(index) ==
  /\ index \in 0..(Len(slides) - 1)
  /\ IF Len(slides) <= 1 THEN UNCHANGED <<slides, currentSlide>>
     ELSE /\ slides' = WithoutSlide(slides, index)
          /\ currentSlide' = IF currentSlide >= Len(slides) - 1
                             THEN Len(slides) - 2 ELSE currentSlide
  /\ UNCHANGED <<asyncOps, deckFrame>>

Directions == {"up", "down"}

moveSlide(index, direction) ==
  /\ index \in 0..(Len(slides) - 1)
  /\ LET newIndex == IF direction = "up" THEN index - 1 ELSE index + 1 IN
       IF newIndex < 0 \/ newIndex >= Len(slides) THEN UNCHANGED <<slides, currentSlide>>
       ELSE /\ slides' = [slides EXCEPT ![index + 1] = slides[newIndex + 1],
                                        ![newIndex + 1] = slides[index + 1]]
            /\ currentSlide' = newIndex
  /\ UNCHANGED <<asyncOps, deckFrame>>

\* importSlides(file) up to reader.readAsText: the onloadend callback keeps
\* the slides of the render that created it
importSlides ==
  /\ asyncOps.import = "none"
  /\ asyncOps' = [asyncOps EXCEPT !.import = "reading", !.closure = slides]
  /\ UNCHANGED <<slides, currentSlide, deckFrame>>

\* Texts an imported file can hold: not JSON, an empty array, an array of
\* one slide the import schema accepts (an empty body is a string), an array
\* with an object that has no body
ImportFiles ==
  { NotJson, JsonText(<<>>),
    JsonText(<<[title |-> <<"Imported">>, body |-> <<>>, imageUrl |-> <<>>]>>),
    JsonText(<<[title |-> <<"Imported">>]>>) }

\* ImportedSlidesSchema: z.array(z.object({title: z.string(), body: z.string(),
\* notes, imageUrl, ai_image_description optional}))
ImportedSlidesSchemaOk(value) ==
  \A i \in 1..Len(value) :
    /\ IsString(Get(value[i], "title"))
    /\ IsString(Get(value[i], "body"))
    /\ Get(value[i], "notes") # Null
    /\ Get(value[i], "ai_image_description") # Null

\* reader.onloadend of importSlides: the imported slides are appended to the
\* slides of the closure, or the file is refused
importLoaded(file) ==
  /\ asyncOps.import = "reading"
  /\ asyncOps' = [asyncOps EXCEPT !.import = "none", !.closure = <<>>]
  /\ IF file.json /\ ImportedSlidesSchemaOk(file.value) THEN
       /\ Len(asyncOps.closure) + Len(file.value) <= MaxDeckLen
       /\ slides' = asyncOps.closure \o
                      [i \in 1..Len(file.value) |-> SlideContentParse(file.value[i])]
     ELSE UNCHANGED slides
  /\ UNCHANGED <<currentSlide, deckFrame>>

(***************************************************************************)
(* Specification of the deck of the Index page: the slide manager, slide   *)
(* edits and deck generations, from the page with a stored key, a valid    *)
(* request in the form and two of the sample slides left in the deck.      *)
(***************************************************************************)
ValidForm ==
  [initialFormData EXCEPT !.topic = <<"Mars">>, !.description = <<"intro">>]

\* What the LLM call answers here: a rejection, a text that is not JSON, or
\* a presentation of one slide
DeckCompletions ==
  {c \in Completions :
     \/ c.kind = "reject"
     \/ c.kind = "content" /\ ~c.content.json
     \/ /\ c.kind = "content"
        /\ c.content.json
        /\ PresentationSchemaOk(c.content.value)
        /\ Len(c.content.value.slides) = 1}

InitDeck ==
  /\ slides = SubSeq(sampleSlides, 1, 2)
  /\ currentSlide = 0
  /\ formData = ValidForm
  /\ isGenerating = FALSE
  /\ currentStep = 1
  /\ loadingMessage = <<>>
  /\ presentationId = Null
  /\ isApiKeyDialogOpen = FALSE
  /\ pendingImagePrompt = Null
  /\ keyItem = encryptKey(<<"sk-1">>)
  /\ storage = <<>>
  /\ nextId = 0
  /\ pc = "idle"
  /\ presentation = NoPresentation
  /\ tasks = NoTasks
  /\ run = NoRun
  /\ storeCalls = <<>>
  /\ viewer = NoViewer
  /\ OthersAtRest

NextDeck ==
  \/ \E index \in 0..(MaxDeckLen - 1) : onSlideSelect(index)
  \/ addNewSlide
  \/ \E index \in 0..(MaxDeckLen - 1) : removeSlide(index)
  \/ \E index \in 0..(MaxDeckLen - 1), direction \in Directions : moveSlide(index, direction)
  \/ importSlides
  \/ \E file \in ImportFiles : importLoaded(file)
  \/ \E s \in EditedSlides : handleSlideUpdate(0, s)
  \/ handleSubmit
  \/ \E c \in DeckCompletions : LLMResponse(c)
  \/ \E i \in 1..MaxSlides, resp \in ImageResponses : ImageResponse(i, resp)

SpecDeck == InitDeck /\ [][NextDeck]_vars

\* C26: after any sequence of addNewSlide, removeSlide, moveSlide,
\* importSlides, slide edits and deck generations that succeed or fail the
\* deck has at least one slide, and removeSlide on a deck of one slide
\* changes neither the deck nor the selection.
C26_DeckNeverEmpty ==
  /\ Len(slides) >= 1
  /\ Len(slides) = 1 =>
       \A index \in 0..(MaxDeckLen - 1) :
         ~ENABLED (removeSlide(index)
                   /\ (slides' # slides \/ currentSlide' # currentSlide))

\* A slide was removed from a deck of two, and the deck of one slide that
\* is left went through a failed generation
C26_Witness ==
  /\ slides = <<sampleSlides[2]>>
  /\ currentSlide = 0
  /\ run.outcome = "failed"

\* C29: the selection always designates a slide of the deck:
\* 0 <= currentSlide < slides.length.
C29_SelectionInDeck ==
  currentSlide \in 0..(Len(slides) - 1)

(***************************************************************************)
(* Export from the Index page (handleExportPPT, Index.tsx 410-438) and the  *)
(* frame of the store and export operations.                               *)
(***************************************************************************)
exportFrame == <<slides, currentSlide, formData, currentStep, presentationId,
                 isApiKeyDialogOpen, pendingImagePrompt, keyItem, storage, nextId, pc,
                 presentation, tasks, run, storeCalls, viewer, dialogTrigger, replay,
                 failures, shareViewer, validation, asyncOps>>

\* An export started from the page has not returned
ExportInFlight == exporter.pc = "slides"

\* Mutant of handleExportPPT: the default title is written into the form
handleExportPPTDefaultingTopic ==
  /\ ~isGenerating
  /\ ~isApiKeyDialogOpen
  /\ ~ExportInFlight
  /\ isGenerating' = TRUE
  /\ loadingMessage' = <<"Starting PowerPoint export...">>
  /\ formData' = IF Truthy(formData.topic) THEN formData
                 ELSE [formData EXCEPT !.topic = <<"FlamSlides Presentation">>]
  /\ exporter' = StartedExport(exporter, slides, formData'.topic)
  /\ UNCHANGED <<slides, currentSlide, currentStep, presentationId,
                 isApiKeyDialogOpen, pendingImagePrompt, keyItem, storage, nextId, pc,
                 presentation, tasks, run, storeCalls, viewer, dialogTrigger, replay,
                 failures, shareViewer, validation, asyncOps>>

\* handleExportPPT up to the first await of exportToPowerPoint(slides,
\* formData.topic || "FlamSlides Presentation", onProgress); the button is
\* disabled while isGenerating
handleExportPPT ==
  /\ ~isGenerating
  /\ ~isApiKeyDialogOpen
  /\ ~ExportInFlight
  /\ isGenerating' = TRUE
  /\ loadingMessage' = <<"Starting PowerPoint export...">>
  /\ exporter' = StartedExport(exporter, slides,
                               IF Truthy(formData.topic) THEN formData.topic
                               ELSE <<"FlamSlides Presentation">>)
  /\ UNCHANGED exportFrame

\* One slide of the export; onProgress is setLoadingMessage(progress.status),
\* which returns
exportProgress(outcome) ==
  /\ ExportInFlight
  /\ Len(exporter.built) < Len(exporter.slides)
  /\ exporter' = ExportedSlide(exporter, outcome, "returns", "returns")
  /\ loadingMessage' =
       LET i == Len(exporter.built) + 1 IN
         IF Truthy(Get(exporter.slides[i], "imageUrl"))
         THEN <<"Adding image to slide ", ToString(i)>>
         ELSE <<"Processing slide ", ToString(i), " of ",
                ToString(Len(exporter.slides))>>
  /\ UNCHANGED <<isGenerating, exportFrame>>

\* The end of the export: the last report, pptx.writeFile resolves (written)
\* or rejects, the toast, and the finally block of handleExportPPT
exportReturns(now, written) ==
  /\ ExportInFlight
  /\ Len(exporter.built) = Len(exporter.slides)
  /\ now >= exporter.clock
  /\ exporter' = WrittenFile(exporter, now, IF written THEN "returns" ELSE "throws")
  /\ isGenerating' = FALSE
  /\ loadingMessage' = <<>>
  /\ UNCHANGED exportFrame

InitFrame ==
  /\ slides \in {deck \in SeqsUpTo(StoredSlides, MaxDeck) :
                  Len(deck) = MaxDeck /\ deck[1] = sampleSlides[1]}
  /\ currentSlide = 0
  /\ formData \in {initialFormData, ValidForm}
  /\ isGenerating = FALSE
  /\ currentStep = 3
  /\ loadingMessage = <<>>
  /\ presentationId = Null
  /\ isApiKeyDialogOpen = FALSE
  /\ pendingImagePrompt = Null
  /\ keyItem = Null
  /\ storage = <<>>
  /\ nextId = 0
  /\ pc = "idle"
  /\ presentation = NoPresentation
  /\ tasks = NoTasks
  /\ run = NoRun
  /\ storeCalls = <<>>
  /\ viewer = NoViewer
  /\ OthersAtRest

NextFrame ==
  \/ \E fullOk, minimalOk \in BOOLEAN : handleGenerateQRCode(fullOk, minimalOk)
  \/ \E fullOk, minimalOk \in BOOLEAN : handleStartPresentation(fullOk, minimalOk)
  \/ closeQRCode
  \/ \E index \in 0..(MaxDeck - 1) : onSlideSelect(index)
  \/ handleExportPPT
  \/ \E outcome \in FetchOutcomes : exportProgress(outcome)
  \/ \E now \in 1..MaxClock, written \in BOOLEAN : exportReturns(now, written)

SpecFrame == InitFrame /\ [][NextFrame]_vars

\* A step of generatePresentationId (through the QR code or the start of the
\* presentation) or of exportToPowerPoint
StoreStep == storeCalls' # storeCalls
ExportStep == exporter' # exporter

\* C27: generatePresentationId and exportToPowerPoint only read the deck:
\* whether they succeed, degrade or fail, a step of either leaves slides,
\* currentSlide and formData as they were.
C27_StoreAndExportReadOnly ==
  [][StoreStep \/ ExportStep =>
       /\ slides' = slides
       /\ currentSlide' = currentSlide
       /\ formData' = formData]_vars

\* The second slide is selected, the deck was stored in limited mode and not
\* at all, and exports of it have ended written with a placeholder image and
\* failed
C27_Witness ==
  /\ currentSlide = 1
  /\ \E c \in 1..Len(storeCalls) : storeCalls[c].toast = "Limited Storage Mode"
  /\ \E c \in 1..Len(storeCalls) : storeCalls[c].toast = "Storage Warning"
  /\ exporter.pc = "failed"
  /\ exporter.previous.fileName # Null

(***************************************************************************)
(* The busy flag: deck generations, exports, single-image generations and  *)
(* key saves of the Index page interleaved.  The Key button (Index.tsx     *)
(* 532-540) carries no disabled={isGenerating}, and onSuccess calls        *)
(* handleSubmit without a test of isGenerating.                            *)
(***************************************************************************)
\* onGenerateImage(description) from the slide editor's button (disabled
\* without a description and while isGenerating) up to the fetch of
\* generateImage; without a stored key generateImage throws before any
\* await and the finally block runs in the same step
onGenerateImage(index) ==
  /\ ~isGenerating
  /\ ~isApiKeyDialogOpen
  /\ asyncOps.image = "none"
  /\ index \in 0..(Len(slides) - 1)
  /\ Truthy(slides[index + 1].ai_image_description)
  /\ LET description == slides[index + 1].ai_image_description
         apiKey == getApiKey(keyItem)
     IN
       IF ~Truthy(apiKey) THEN
         /\ GenerateImageEffects(generateImage(description, apiKey, FetchRejected),
                                 description)
         /\ isGenerating' = FALSE
         /\ loadingMessage' = <<>>
         /\ UNCHANGED asyncOps
       ELSE
         /\ isGenerating' = TRUE
         /\ loadingMessage' = <<"Generating image...">>
         /\ asyncOps' = [asyncOps EXCEPT !.image = "pending", !.prompt = description,
                                         !.apiKey = apiKey]
         /\ UNCHANGED <<keyItem, pendingImagePrompt, isApiKeyDialogOpen, dialogTrigger>>
  /\ UNCHANGED <<slides, currentSlide, formData, currentStep, presentationId, storage,
                 nextId, pc, presentation, tasks, run, storeCalls, viewer, replay,
                 failures, exporter, shareViewer, validation>>

\* onGenerateImage from the resolution of the fetch: generateImage returns
\* or throws, and the finally block clears the flag (the image goes to the
\* slide editor's own copy of the slide)
onGenerateImageResponse(resp) ==
  /\ asyncOps.image = "pending"
  /\ GenerateImageEffects(generateImage(asyncOps.prompt, asyncOps.apiKey, resp),
                          asyncOps.prompt)
  /\ isGenerating' = FALSE
  /\ loadingMessage' = <<>>
  /\ asyncOps' = [asyncOps EXCEPT !.image = "none", !.prompt = Null, !.apiKey = Null]
  /\ UNCHANGED <<slides, currentSlide, formData, currentStep, presentationId, storage,
                 nextId, pc, presentation, tasks, run, storeCalls, viewer, replay,
                 failures, exporter, shareViewer, validation>>

\* ApiKeyDialog.handleSubmit and onSuccess with no pending prompt while a
\* run of handleSubmit is in flight (the case saveApiKey leaves out): the key
\* is stored and handleSubmit is called again, up to its first await
saveApiKeyWhileRunning(key) ==
  /\ isApiKeyDialogOpen
  /\ ApiKeySchemaOk(key)
  /\ ~Truthy(pendingImagePrompt)
  /\ pc # "idle"
  /\ asyncOps.secondRun = "none"
  /\ run.llmCalls <= MaxRuns
  /\ keyItem' = encryptKey(key)
  /\ isApiKeyDialogOpen' = FALSE
  /\ IF ~PresentationRequestOk(formData) THEN
       /\ currentStep' = 1
       /\ isGenerating' = FALSE
       /\ loadingMessage' = <<>>
       /\ failures' = failures \cup {[toast |-> CatchToast(TRUE), stage |-> "request"]}
       /\ UNCHANGED <<run, asyncOps>>
     ELSE
       /\ currentStep' = 2
       /\ isGenerating' = TRUE
       /\ loadingMessage' = <<"Creating engaging presentation content with ChatGPT...">>
       /\ run' = [run EXCEPT !.llmCalls = @ + 1]
       /\ asyncOps' = [asyncOps EXCEPT !.secondRun = "llm"]
       /\ UNCHANGED failures
  /\ UNCHANGED <<slides, currentSlide, formData, presentationId, pendingImagePrompt,
                 storage, nextId, pc, presentation, tasks, storeCalls, viewer,
                 dialogTrigger, replay, exporter, shareViewer, validation>>

\* The run record holds one run of handleSubmit: once the first run has
\* ended it follows the second one, whose LLM call is still unanswered
secondRunResumes ==
  /\ asyncOps.secondRun = "llm"
  /\ pc = "idle"
  /\ pc' = "llm"
  /\ run' = [outcome |-> "running", failure |-> "none", toast |-> "none",
             setSlides |-> 0, llmCalls |-> run.llmCalls]
  /\ presentation' = NoPresentation
  /\ tasks' = NoTasks
  /\ asyncOps' = [asyncOps EXCEPT !.secondRun = "none"]
  /\ UNCHANGED <<slides, currentSlide, formData, isGenerating, currentStep,
                 loadingMessage, presentationId, isApiKeyDialogOpen,
                 pendingImagePrompt, keyItem, storage, nextId, storeCalls, viewer,
                 dialogTrigger, replay, failures, exporter, shareViewer, validation>>

\* What the network answers here: the LLM call is rejected or returns a
\* presentation of one slide with an image description; an image call
\* returns an image or HTTP 401; the fetch of an export returns the image
\* or is rejected
BusyCompletions ==
  {c \in DeckCompletions :
     \/ c.kind = "reject"
     \/ /\ c.kind = "content"
        /\ c.content.json
        /\ Truthy(Get(c.content.value.slides[1], "ai_image_description"))
        /\ ~Truthy(Get(c.content.value.slides[1], "imageUrl"))}

BusyImageResponses ==
  {resp \in ImageResponses :
     /\ resp.kind = "response"
     /\ resp.jsonOk
     /\ \/ resp.status = 200 /\ Truthy(resp.b64)
        \/ resp.status = 401}

NextBusy ==
  \/ handleSubmit
  \/ \E c \in BusyCompletions : LLMResponse(c)
  \/ \E i \in 1..MaxSlides, resp \in BusyImageResponses : ImageResponse(i, resp)
  \/ openApiKeyDialog
  \/ \E key \in TypedKeys : saveApiKey(key)
  \/ \E resp \in BusyImageResponses : ReplayImageResponse(resp)
  \/ \E key \in TypedKeys : saveApiKeyWhileRunning(key)
  \/ secondRunResumes
  \/ handleExportPPT
  \/ \E outcome \in {"ok", "rejected"} : exportProgress(outcome)
  \/ \E written \in BOOLEAN : exportReturns(1, written)
  \/ \E index \in 0..(MaxDeckLen - 1) : onGenerateImage(index)
  \/ \E resp \in BusyImageResponses : onGenerateImageResponse(resp)

SpecBusy == InitDeck /\ [][NextBusy]_vars

\* Runs of handleSubmit between their first await and their finally block
DeckGenerationsInFlight ==
  (IF pc # "idle" THEN 1 ELSE 0) + (IF asyncOps.secondRun # "none" THEN 1 ELSE 0)

ImageGenerationInFlight == asyncOps.image = "pending"

\* C28: isGenerating is true whenever a deck generation, an export or a
\* single-image generation is in flight, and at most one deck generation is
\* in flight at a time.
C28_BusyFlagCoversWork ==
  /\ (DeckGenerationsInFlight > 0 \/ ExportInFlight \/ ImageGenerationInFlight)
       => isGenerating
  /\ DeckGenerationsInFlight <= 1

(***************************************************************************)
(* The image call replayed by the key save                                 *)
(***************************************************************************)
\* The image call of slide k of the generated deck recorded the prompt: it
\* stopped on the authentication error of generateImage for that prompt
RecordedPrompt(k, prompt) ==
  /\ k \in Slots
  /\ AuthenticationFailed(k)
  /\ tasks.slots[k].slide.ai_image_description = prompt

\* onSuccess has its answer from the replayed image call
ReplayAnswered == replay.state = "pending" /\ replay'.state = "none"

\* The deck after the step differs from the deck before it in nothing but
\* the imageUrl of slide k
OnlyImageOf(k) ==
  /\ Len(slides') = Len(slides)
  /\ \A j \in 1..Len(slides) : j # k => slides'[j] = slides[j]
  /\ \A f \in DOMAIN slides[k] \ {"imageUrl"} :
       f \in DOMAIN slides'[k] /\ slides'[k][f] = slides[k][f]

\* C30: a key save with a pending image prompt clears the prompt, starts no
\* deck generation and issues the image call, and the answer of that call
\* changes nothing in the deck but the image of the slide whose image call
\* recorded the prompt.
C30_ReplayedImageOnItsSlide ==
  [][/\ ImageReplayed => (pendingImagePrompt' = Null /\ ~LLMIssued)
     /\ ReplayAnswered =>
          \/ slides' = slides
          \/ \E k \in 1..Len(slides) :
               RecordedPrompt(k, replay.prompt) /\ OnlyImageOf(k)]_vars

====
